---------------------------- MODULE Spec2Model ----------------------------
(***************************************************************************)
(* A model of the Discourse user-directory filter initializer              *)
(* (src/javascripts/discourse/initializers/user-directory-filters.js).     *)
(* The file holds two variants of the feature:                             *)
(*   - "replace": the host list is hidden and a fetched page of results is *)
(*     rendered into an injected results container (lines 1-703);          *)
(*   - "hide": the host list stays and non-matching cards are hidden in    *)
(*     place, kept applied by a MutationObserver (lines 705-1396).         *)
(* One behaviour runs one variant, chosen in Init.  The host page (the     *)
(* directory DOM, the router, the server) is the environment: its moves    *)
(* are the Host* and *Response actions.                                    *)
(*                                                                         *)
(* DOM node identity.  A module variable holding a node is modelled by a   *)
(* reference: "null", "cur" (a node of the directory DOM now in the        *)
(* document) or "stale" (a node of a directory DOM the host has torn       *)
(* down).  Writes through a stale reference do not show in the document.   *)
(***************************************************************************)
EXTENDS Integers, Sequences, FiniteSets, TLC

VARIABLES
  variant,                \* "replace" or "hide": which initializer is installed
  \* ---- the document (host directory DOM and injected elements)
  dirDom,                 \* the directory DOM (root, controls, list section) is rendered
  secDisplay,             \* style.display of the host list section
  hostList,               \* children of the host list section
  btnPresent,             \* the host load-more button is in the document
  btnDisplay,             \* its style.display
  btnDisabled,            \* its disabled property
  btnListener,            \* the script's capture click listener is attached to it
  formCount,              \* number of injected .hb-user-search-filters in the document
  formSel,                \* the current dropdown selection of the injected form
  emptyEl,                \* .hb-user-search-empty: "absent", "none" or "block"
  loadingEl,              \* .hb-user-search-loading: "absent", "none" or "block"
  resInDoc,               \* the node held by resultsSection is in the document
  resDisplay,             \* its style.display
  resCards,               \* its children, as appended batches
  \* ---- module state
  options,                \* optionsCache/optionsPromise: "none", "pending", "ok", "empty"
  originalSection,
  originalSectionDisplay,
  templateNode,
  resultsSection,
  searchActive,
  searchFilters,
  searchPage,
  searchHasMore,
  searchLoading,
  loadMoreBtn,
  loadMoreCaptureHandler,
  activeForm,
  \* ---- module state of the hide variant
  directoryFullyLoaded,
  directoryLoadPromise,   \* [state: "null", "pending" or "done", id]
  activeMatchSet,         \* [isNull, names]
  directoryObserver,      \* what the MutationObserver observes: "null", "cur", "stale", "outlet"
  scheduledReapply,       \* the 120 ms reapply timer is pending
  isReordering,
  reorderTimers,          \* pending setTimeout(() => isReordering = false, 0)
  sortTimers,             \* pending setTimeout(() => sortCardsByLastSeen(), 0)
  unreconciled,           \* history: the host changed the list under the observer
                          \* and applyFiltersBySet has not run on the list since
  \* ---- pending asynchronous work
  injectTimers,           \* pending setTimeout(injectFilters, 0)
  optWaiters,             \* then-callbacks waiting on optionsPromise
  firstReqs,              \* renderFirstPage calls awaiting their response
  nextSleeps,             \* loadNextPage calls in sleep(150)
  nextReqs,               \* loadNextPage calls awaiting their response
  loaders,                \* ids of the ensureAllUsersLoaded runs in progress
  hideSubmits,            \* submit handlers of the hide variant at an await
  lastSubmit,             \* history: the filters of the most recent submission
  \* ---- how much of the model's bounds a behaviour has used
  nNav,                   \* page-change events so far
  nRender,                \* host renders of the directory page so far
  nSubmit,                \* form submissions so far
  nClick,                 \* load-more clicks so far
  \* ---- one function of the program run on its own
  load,                   \* the locals of one ensureAllUsersLoaded run, and where it is
  hostPlan,               \* how the host's list and load-more button behave in that run
  call                    \* a call of a synchronous function: its arguments and result

domVars == <<dirDom, secDisplay, hostList, btnPresent, btnDisplay, btnDisabled,
             btnListener, formCount, formSel, emptyEl, loadingEl, resInDoc,
             resDisplay, resCards>>
modVars == <<options, originalSection, originalSectionDisplay, templateNode,
             resultsSection, searchActive, searchFilters, searchPage,
             searchHasMore, searchLoading, loadMoreBtn, loadMoreCaptureHandler,
             activeForm, directoryFullyLoaded, directoryLoadPromise,
             activeMatchSet, directoryObserver, scheduledReapply, isReordering,
             reorderTimers, sortTimers, unreconciled>>
replaceTasks == <<firstReqs, nextSleeps, nextReqs>>
hideTasks == <<loaders, hideSubmits>>
taskVars == <<injectTimers, optWaiters, replaceTasks, hideTasks, lastSubmit>>
countVars == <<nNav, nRender, nSubmit, nClick>>
unitVars == <<load, hostPlan, call>>
vars == <<variant, domVars, modVars, taskVars, countVars, unitVars>>

-----------------------------------------------------------------------------
(* Bounds of the model *)

\* page-change events in one behaviour
MaxNav == 2
\* page changes and submissions together in one behaviour of the replace
\* variant (a submission, a page change and an empty submission after the
\* first page change fit) and of the hide variant
MaxEvents == 4
MaxHideEvents == 3
\* times the host renders the directory page in one behaviour
MaxRender == 1
\* form submissions in one behaviour
MaxSubmit == 2
\* clicks on the load-more button in one behaviour
MaxClick == 2

(* Program constants *)

\* let searchPerPage = 30
SearchPerPage == 30

-----------------------------------------------------------------------------
(* Values *)

\* the null filters object (searchFilters = null)
Null == [null |-> TRUE]
\* activeMatchSet: null, or a Set of lowercased usernames
NullSet == [isNull |-> TRUE, names |-> {}]
NameSet(names) == [isNull |-> FALSE, names |-> names]
\* directoryLoadPromise: null, or the promise of the load started in page view id
NoPromise == [state |-> "null", id |-> 0]
\* FormData.get of a field the form does not have
Missing == <<"null">>

\* A string is modelled as the sequence of its characters.

\* String.prototype.trim on a character sequence
RECURSIVE TrimLeft(_)
TrimLeft(str) ==
  IF str # <<>> /\ Head(str) = " " THEN TrimLeft(Tail(str)) ELSE str

RECURSIVE TrimRight(_)
TrimRight(str) ==
  IF str # <<>> /\ str[Len(str)] = " "
    THEN TrimRight(SubSeq(str, 1, Len(str) - 1))
    ELSE str

Trim(str) == TrimRight(TrimLeft(str))

\* the value of a field, were it not trimmed
FieldValueUntrimmed(v) == IF v = Missing THEN <<>> ELSE v

\* (fd.get(name) || "").toString().trim()
FieldValue(v) == IF v = Missing THEN <<>> ELSE Trim(v)

buildFiltersFromForm(form) ==
  LET gender == FieldValue(form.gender)
      country == FieldValue(form.country)
      listen == FieldValue(form.listen)
      share == FieldValue(form.share)
  IN [gender |-> gender, country |-> country, listen |-> listen, share |-> share,
      hasAnyFilter |-> (gender # <<>> \/ country # <<>> \/ listen # <<>> \/ share # <<>>)]

\* dropdown selections the user can make
SelNone == [gender |-> <<>>, country |-> <<>>, listen |-> <<>>, share |-> <<>>]
SelA == [gender |-> <<"f">>, country |-> <<>>, listen |-> <<>>, share |-> <<>>]
SelB == [gender |-> <<"m">>, country |-> <<>>, listen |-> <<"x">>, share |-> <<>>]
FormChoices == {SelNone, SelA, SelB}
\* The dropdowns offer "Do not consider" and the options of optionsCache:
\* after a failed options request there is nothing else to select.
Selectable(opts) == IF opts = "ok" THEN FormChoices ELSE {SelNone}

\* Children of the host list.  kind: "card" (a rendered user card) or
\* "skeleton" (a loading placeholder, without avatar and username markup).  name: the username the card's markup carries (<<>>: none).
\* ts: the card's last-seen timestamp (0: none).  display: style.display.
HostCard(kind, name, ts) == [kind |-> kind, name |-> name, ts |-> ts, display |-> ""]
Skeleton == HostCard("skeleton", <<>>, 0)
\* the users of the host directory, in the order the host lists them
HostPool == << HostCard("card", <<"A">>, 1), HostCard("card", <<"b">>, 2),
              HostCard("card", <<"c">>, 0) >>
\* the host renders the first two users, then one more per load-more
HostFirstPage == SubSeq(HostPool, 1, 2)
\* what the list may hold when the host first renders the directory
HostLists == {<<>>, <<Skeleton>>, HostFirstPage}

\* sizes of a page of users the search endpoint may return
RespSizes == {0, 1, SearchPerPage}
\* a response: the request failed, or it carries n users
Responses == {[ok |-> FALSE, n |-> 0]} \cup {[ok |-> TRUE, n |-> n] : n \in RespSizes}

RemoveAt(seq, i) == SubSeq(seq, 1, i - 1) \o SubSeq(seq, i + 1, Len(seq))

-----------------------------------------------------------------------------
(* URLs of page-change events *)

Urls == { <<"/", "u">>,
          <<"/", "u", "/">>,
          <<"/", "u", "s", "e", "r", "s">>,
          <<"/", "u", "?", "x">>,
          <<"/", "u", "#", "x">>,
          <<"/", "u", "/", "x">>,
          <<"/", "x">>,
          <<"/", "u", "s", "e", "r", "s", "/">>,
          <<"/", "u", "/", "?", "x">>,
          <<"/", "u", "s", "e", "r", "s", "?", "x", "#", "y">>,
          <<"/", "u", "#", "/", "x">>,
          <<"/", "u", "s">>,
          <<"/", "u", "s", "e", "r", "s", "/", "x">>,
          <<"/", "u", "/", "/">>,
          <<"x", "/", "u">>,
          <<>> }

\* (url || "").split("#")[0]
RECURSIVE BeforeHash(_)
BeforeHash(url) ==
  IF url = <<>> \/ Head(url) = "#" THEN <<>>
  ELSE <<Head(url)>> \o BeforeHash(Tail(url))

IsPrefix(p, str) == Len(p) <= Len(str) /\ SubSeq(str, 1, Len(p)) = p

\* /^\/WORD\/?(\?.*)?$/.test(str)
MatchesDir(word, str) ==
  /\ IsPrefix(<<"/">> \o word, str)
  /\ LET rest == SubSeq(str, Len(word) + 2, Len(str))
         r2 == IF rest # <<>> /\ Head(rest) = "/" THEN Tail(rest) ELSE rest
     IN r2 = <<>> \/ Head(r2) = "?"

\* the two patterns without their end anchor
isDirectoryPrefix(url) ==
  LET cleanUrl == BeforeHash(url)
  IN IsPrefix(<<"/", "u">>, cleanUrl)

\* onPageChange: cleanUrl and isDirectory
isDirectory(url) ==
  LET cleanUrl == BeforeHash(url)
  IN MatchesDir(<<"u">>, cleanUrl) \/ MatchesDir(<<"u", "s", "e", "r", "s">>, cleanUrl)

-----------------------------------------------------------------------------
(* The document and the module state as one record, so that the functions  *)
(* of the source compose as they do in the code.                           *)

St ==
  [dirDom |-> dirDom, secDisplay |-> secDisplay, hostList |-> hostList,
   btnPresent |-> btnPresent, btnDisplay |-> btnDisplay,
   btnDisabled |-> btnDisabled, btnListener |-> btnListener,
   formCount |-> formCount, formSel |-> formSel, emptyEl |-> emptyEl,
   loadingEl |-> loadingEl, resInDoc |-> resInDoc, resDisplay |-> resDisplay,
   resCards |-> resCards,
   options |-> options, originalSection |-> originalSection,
   originalSectionDisplay |-> originalSectionDisplay,
   templateNode |-> templateNode, resultsSection |-> resultsSection,
   searchActive |-> searchActive, searchFilters |-> searchFilters,
   searchPage |-> searchPage, searchHasMore |-> searchHasMore,
   searchLoading |-> searchLoading, loadMoreBtn |-> loadMoreBtn,
   loadMoreCaptureHandler |-> loadMoreCaptureHandler, activeForm |-> activeForm,
   directoryFullyLoaded |-> directoryFullyLoaded,
   directoryLoadPromise |-> directoryLoadPromise,
   activeMatchSet |-> activeMatchSet, directoryObserver |-> directoryObserver,
   scheduledReapply |-> scheduledReapply, isReordering |-> isReordering,
   reorderTimers |-> reorderTimers, sortTimers |-> sortTimers,
   unreconciled |-> unreconciled]

Put(s) ==
  /\ dirDom' = s.dirDom
  /\ secDisplay' = s.secDisplay
  /\ hostList' = s.hostList
  /\ btnPresent' = s.btnPresent
  /\ btnDisplay' = s.btnDisplay
  /\ btnDisabled' = s.btnDisabled
  /\ btnListener' = s.btnListener
  /\ formCount' = s.formCount
  /\ formSel' = s.formSel
  /\ emptyEl' = s.emptyEl
  /\ loadingEl' = s.loadingEl
  /\ resInDoc' = s.resInDoc
  /\ resDisplay' = s.resDisplay
  /\ resCards' = s.resCards
  /\ options' = s.options
  /\ originalSection' = s.originalSection
  /\ originalSectionDisplay' = s.originalSectionDisplay
  /\ templateNode' = s.templateNode
  /\ resultsSection' = s.resultsSection
  /\ searchActive' = s.searchActive
  /\ searchFilters' = s.searchFilters
  /\ searchPage' = s.searchPage
  /\ searchHasMore' = s.searchHasMore
  /\ searchLoading' = s.searchLoading
  /\ loadMoreBtn' = s.loadMoreBtn
  /\ loadMoreCaptureHandler' = s.loadMoreCaptureHandler
  /\ activeForm' = s.activeForm
  /\ directoryFullyLoaded' = s.directoryFullyLoaded
  /\ directoryLoadPromise' = s.directoryLoadPromise
  /\ activeMatchSet' = s.activeMatchSet
  /\ directoryObserver' = s.directoryObserver
  /\ scheduledReapply' = s.scheduledReapply
  /\ isReordering' = s.isReordering
  /\ reorderTimers' = s.reorderTimers
  /\ sortTimers' = s.sortTimers
  /\ unreconciled' = s.unreconciled

\* A reference to the host list section.  A stale reference remembers the
\* kind of the first child the node had when the host removed it.
NullRef == [ref |-> "null", first |-> "none"]
CurRef == [ref |-> "cur", first |-> "none"]
StaleRef(first) == [ref |-> "stale", first |-> first]

\* A reference to an injected form.  A stale reference remembers the
\* selection the form had when the host removed it.
NullForm == [ref |-> "null", sel |-> SelNone]
CurForm == [ref |-> "cur", sel |-> SelNone]
StaleForm(sel) == [ref |-> "stale", sel |-> sel]

FirstKind(list) == IF Len(list) > 0 THEN list[1].kind ELSE "none"

\* originalSection.children[0], as the kind of that child ("none": no child)
OriginalFirstChild(s) ==
  IF s.originalSection.ref = "cur" THEN FirstKind(s.hostList)
  ELSE s.originalSection.first

\* originalSection.style.display = d
SetOriginalDisplay(s, d) ==
  IF s.originalSection.ref = "cur" THEN [s EXCEPT !.secDisplay = d] ELSE s

-----------------------------------------------------------------------------
(* Replace variant: rendering helpers *)

\* function ensureSections(): [ok |-> a context was returned, s |-> state after]
ensureSections(s) ==
  IF ~s.dirDom THEN [ok |-> FALSE, s |-> s]
  ELSE
    LET s1 == IF s.originalSection.ref = "null"
                THEN [s EXCEPT !.originalSection = CurRef,
                               !.originalSectionDisplay = s.secDisplay,
                               !.templateNode =
                                  IF Len(s.hostList) > 0 THEN s.hostList[1].kind ELSE @]
                ELSE s
        s2 == IF s1.resultsSection = "null"
                THEN [s1 EXCEPT !.resultsSection = "node",
                                !.resDisplay = "none",
                                !.resCards = <<>>,
                                \* inserted next to originalSection
                                !.resInDoc = (s1.originalSection.ref = "cur")]
                ELSE s1
    IN [ok |-> TRUE, s |-> s2]

\* function showEmptyMessage(root, show)
showEmptyMessage(s, root, show) ==
  IF root = "cur" THEN [s EXCEPT !.emptyEl = IF show THEN "block" ELSE "none"]
  ELSE s

\* a setLoading that shows the indicator and never hides it
setLoadingShowOnly(s, root, isLoading) ==
  IF root = "cur" /\ isLoading THEN [s EXCEPT !.loadingEl = "block"] ELSE s

\* function setLoading(root, isLoading)
setLoading(s, root, isLoading) ==
  IF root = "cur" THEN [s EXCEPT !.loadingEl = IF isLoading THEN "block" ELSE "none"]
  ELSE s

\* findLoadMoreButton(root), as a reference
findLoadMoreButton(s, root) ==
  IF root = "cur" THEN (IF s.btnPresent THEN "cur" ELSE "null")
  ELSE IF root = "staleBtn" THEN "stale"
  ELSE "null"

\* function updateLoadMoreButton(root)
updateLoadMoreButton(s, root) ==
  LET btn == findLoadMoreButton(s, root)
      s1 == [s EXCEPT !.loadMoreBtn = btn]
      s2 == IF s1.searchActive /\ ~s1.loadMoreCaptureHandler
              THEN [s1 EXCEPT !.loadMoreCaptureHandler = TRUE,
                              !.btnListener = IF btn = "cur" THEN TRUE ELSE @]
              ELSE s1
      s3 == IF btn # "cur" THEN s2
            ELSE IF s2.searchActive
              THEN [s2 EXCEPT !.btnDisplay = IF s2.searchHasMore THEN "" ELSE "none",
                              !.btnDisabled = s2.searchLoading]
              ELSE [s2 EXCEPT !.btnDisplay = "", !.btnDisabled = FALSE]
  IN IF btn = "null" THEN s1 ELSE s3

\* function detachLoadMoreInterceptor()
detachLoadMoreInterceptor(s) ==
  [s EXCEPT !.btnListener =
               IF s.loadMoreBtn = "cur" /\ s.loadMoreCaptureHandler THEN FALSE ELSE @,
            !.loadMoreBtn = "null",
            !.loadMoreCaptureHandler = FALSE]

\* document.querySelectorAll(".hb-user-search-results").forEach((el) => el.remove())
removeResultsFromDocument(s) == [s EXCEPT !.resInDoc = FALSE]

\* buildCardFromUser for each user of a response, in response order: the
\* cards of one response are kept as one batch
\*   [filters, page, n users, template the cards were cloned from]
buildCards(s, req, n) ==
  [filters |-> req.filters, page |-> req.page, n |-> n, template |-> s.templateNode]

\* users.forEach((u) => resultsSection.appendChild(buildCardFromUser(u)));
\* throws (a TypeError) when there is a user and resultsSection is null
appendThrows(s, n) == n > 0 /\ s.resultsSection = "null"
appendCards(s, req, n) ==
  IF n = 0 THEN s ELSE [s EXCEPT !.resCards = Append(@, buildCards(s, req, n))]

\* async function renderFirstPage(), up to its await:
\* [issued |-> a request was sent, s |-> state after]
renderFirstPageStart(s) ==
  LET ctx == ensureSections(s)
      s0 == ctx.s
  IN IF ~ctx.ok THEN [issued |-> FALSE, s |-> s0]
     ELSE IF s0.searchFilters = Null \/ ~s0.searchFilters.hasAnyFilter
       THEN [issued |-> FALSE, s |-> s0]
     ELSE
       LET s1 == showEmptyMessage(
                   setLoading([s0 EXCEPT !.searchLoading = TRUE], "cur", TRUE),
                   "cur", FALSE)
           s2 == IF s1.templateNode = "null" /\ s1.originalSection.ref # "null"
                    /\ OriginalFirstChild(s1) # "none"
                   THEN [s1 EXCEPT !.templateNode = OriginalFirstChild(s1)]
                   ELSE s1
           s3 == SetOriginalDisplay([s2 EXCEPT !.searchActive = TRUE], "none")
           s4 == [s3 EXCEPT !.resDisplay = "", !.resCards = <<>>, !.searchPage = 1]
       IN [issued |-> TRUE, s |-> s4]

\* renderFirstPage after its await, were it to drop the response to a request
\* whose filters are no longer the submitted ones
renderFirstPageDoneLatestOnly(s, req, resp) ==
  IF req.filters # s.searchFilters THEN s
  ELSE
    LET hasMore == (resp.n = SearchPerPage)
        ok == resp.ok /\ ~appendThrows(s, resp.n)
        s1 == IF ok
                THEN showEmptyMessage(
                       appendCards([s EXCEPT !.searchHasMore = hasMore], req, resp.n),
                       req.root, resp.n = 0)
              ELSE showEmptyMessage([s EXCEPT !.searchHasMore = FALSE], req.root, TRUE)
        s2 == setLoading([s1 EXCEPT !.searchLoading = FALSE], req.root, FALSE)
    IN updateLoadMoreButton(s2, req.root)

\* renderFirstPage after its await: the try body, catch and finally.
\* req: [filters, page, root, view, sub] of the request (view, sub: the number
\* of page changes and of submissions up to the call), resp: its outcome
renderFirstPageDone(s, req, resp) ==
  LET hasMore == (resp.n = SearchPerPage)
      ok == resp.ok /\ ~appendThrows(s, resp.n)
      s1 == IF ok
              THEN showEmptyMessage(
                     appendCards([s EXCEPT !.searchHasMore = hasMore], req, resp.n),
                     req.root, resp.n = 0)
            ELSE IF resp.ok
              \* thrown by appendChild, after searchHasMore = hasMore
              THEN showEmptyMessage([s EXCEPT !.searchHasMore = FALSE], req.root, TRUE)
            ELSE showEmptyMessage([s EXCEPT !.searchHasMore = FALSE], req.root, TRUE)
      s2 == setLoading([s1 EXCEPT !.searchLoading = FALSE], req.root, FALSE)
  IN updateLoadMoreButton(s2, req.root)

\* async function loadNextPage(), up to await sleep(150):
\* [started |-> it reached the sleep, s |-> state after]
loadNextPageStart(s) ==
  LET ctx == ensureSections(s)
      s0 == ctx.s
  IN IF ~ctx.ok THEN [started |-> FALSE, s |-> s0]
     ELSE IF ~s0.searchActive \/ s0.searchFilters = Null \/ ~s0.searchHasMore
       THEN [started |-> FALSE, s |-> s0]
     ELSE [started |-> TRUE,
           s |-> updateLoadMoreButton([s0 EXCEPT !.searchLoading = TRUE], "cur")]

\* loadNextPage after the sleep: fetchUsersPage(searchFilters, searchPage + 1)
\* throws before any request when searchFilters is null
loadNextPageFetchThrows(s) == s.searchFilters = Null

\* the catch and finally of loadNextPage
loadNextPageFailed(s, root) ==
  updateLoadMoreButton([s EXCEPT !.searchHasMore = FALSE, !.searchLoading = FALSE], root)

\* loadNextPage after its request returned, were it to take any non-empty
\* page for a full one
loadNextPageDoneNonEmpty(s, req, resp) ==
  IF ~resp.ok \/ appendThrows(s, resp.n) THEN loadNextPageFailed(s, req.root)
  ELSE
    LET s1 == appendCards(s, req, resp.n)
        s2 == [s1 EXCEPT !.searchPage = req.page,
                         !.searchHasMore = (resp.n > 0),
                         !.searchLoading = FALSE]
    IN updateLoadMoreButton(s2, req.root)

\* loadNextPage after its request returned
loadNextPageDone(s, req, resp) ==
  IF ~resp.ok \/ appendThrows(s, resp.n) THEN loadNextPageFailed(s, req.root)
  ELSE
    LET s1 == appendCards(s, req, resp.n)
        s2 == [s1 EXCEPT !.searchPage = req.page,
                         !.searchHasMore = (resp.n = SearchPerPage),
                         !.searchLoading = FALSE]
    IN updateLoadMoreButton(s2, req.root)

\* function exitSearchMode()
exitSearchMode(s) ==
  LET ctx == ensureSections(s)
      s0 == ctx.s
  IN IF ~ctx.ok THEN s0
     ELSE
       LET s1 == [s0 EXCEPT !.searchActive = FALSE, !.searchFilters = Null,
                            !.searchPage = 1, !.searchHasMore = FALSE,
                            !.searchLoading = FALSE]
           s2 == IF s1.originalSection.ref # "null"
                   THEN SetOriginalDisplay(s1, s1.originalSectionDisplay) ELSE s1
           s3 == IF s2.resultsSection # "null"
                   THEN [s2 EXCEPT !.resDisplay = "none", !.resCards = <<>>] ELSE s2
           s4 == showEmptyMessage(setLoading(s3, "cur", FALSE), "cur", FALSE)
       IN updateLoadMoreButton(detachLoadMoreInterceptor(s4), "cur")

-----------------------------------------------------------------------------
(* Replace variant: the initializer *)

\* the then-callback of fetchOptions() in injectFilters: build the wrapper,
\* insert it under the controls captured by the call (root: "cur" when they
\* are still in the document), register the handlers
injectFormReplace(s, root) ==
  LET s1 == [s EXCEPT !.formCount = IF root = "cur" THEN @ + 1 ELSE @,
                      !.formSel = IF root = "cur" /\ s.formCount = 0 THEN SelNone ELSE @,
                      !.activeForm = IF root = "cur" THEN CurForm ELSE StaleForm(SelNone)]
  IN updateLoadMoreButton(ensureSections(s1).s, root)

\* api.onPageChange((url) => ...), replace variant
onPageChangeReplace(s, url) ==
  IF ~isDirectory(url)
    THEN exitSearchMode(
           removeResultsFromDocument(
             detachLoadMoreInterceptor([s EXCEPT !.activeForm = NullForm])))
    ELSE
      LET s1 == [s EXCEPT !.originalSection = NullRef, !.templateNode = "null"]
          s2 == [removeResultsFromDocument(s1) EXCEPT
                   !.resultsSection = "null", !.resDisplay = "none", !.resCards = <<>>]
          s3 == detachLoadMoreInterceptor(s2)
      IN [s3 EXCEPT !.searchActive = FALSE, !.searchFilters = Null]

OnPageChangeReplace(url) ==
  /\ variant = "replace"
  /\ nNav < MaxNav /\ nNav + nSubmit < MaxEvents
  /\ nNav' = nNav + 1
  /\ Put(onPageChangeReplace(St, url))
  /\ injectTimers' = IF isDirectory(url) THEN injectTimers + 1 ELSE injectTimers
  /\ UNCHANGED <<variant, unitVars, optWaiters, replaceTasks, hideTasks, lastSubmit,
                 nRender, nSubmit, nClick>>

\* findDirectoryRoot, were the root and its controls found in any document
findControlsAnywhere(s) == TRUE

\* injectFilters: findDirectoryRoot() and the controls under it are found
findControls(s) == s.dirDom

\* function injectFilters() of the replace variant, run by its timer
InjectFiltersReplace ==
  /\ variant = "replace"
  /\ injectTimers > 0
  /\ injectTimers' = injectTimers - 1
  /\ IF ~findControls(St)
       \* directory root or controls not found
       THEN UNCHANGED <<domVars, modVars, optWaiters>>
     ELSE IF formCount > 0
       \* prevent double inject
       THEN /\ Put(updateLoadMoreButton(ensureSections(St).s, "cur"))
            /\ UNCHANGED optWaiters
     ELSE IF options \in {"ok", "empty"}
       \* Promise.resolve(optionsCache).then(...)
       THEN /\ Put(injectFormReplace(St, "cur"))
            /\ UNCHANGED optWaiters
     ELSE /\ Put([St EXCEPT !.options = "pending"])
          /\ optWaiters' = Append(optWaiters, [root |-> "cur"])
  /\ UNCHANGED <<variant, unitVars, replaceTasks, hideTasks, lastSubmit, countVars>>

\* the user sets the dropdowns to sel and submits: the submit handler of the
\* replace variant
SubmitReplace(sel) ==
  /\ variant = "replace"
  /\ formCount > 0
  /\ sel \in Selectable(options)
  /\ nSubmit < MaxSubmit /\ nNav + nSubmit < MaxEvents
  /\ nSubmit' = nSubmit + 1
  /\ lastSubmit' = buildFiltersFromForm(sel)
  /\ LET filters == buildFiltersFromForm(sel)
         s0 == [St EXCEPT !.formSel = sel]
     IN IF ~filters.hasAnyFilter
          THEN /\ Put(exitSearchMode(s0))
               /\ UNCHANGED firstReqs
          ELSE LET r == renderFirstPageStart([s0 EXCEPT !.searchFilters = filters])
               IN /\ Put(r.s)
                  /\ firstReqs' =
                       IF r.issued
                         THEN Append(firstReqs, [filters |-> r.s.searchFilters,
                                                 page |-> r.s.searchPage,
                                                 root |-> "cur", view |-> nNav,
                                                 sub |-> nSubmit + 1])
                         ELSE firstReqs
  /\ UNCHANGED <<variant, unitVars, injectTimers, optWaiters, nextSleeps, nextReqs,
                 hideTasks, nNav, nRender, nClick>>

\* the response of /user-search.json for a renderFirstPage call arrives
FirstPageResponse(i, resp) ==
  /\ variant = "replace"
  /\ i \in DOMAIN firstReqs
  /\ Put(renderFirstPageDone(St, firstReqs[i], resp))
  /\ firstReqs' = RemoveAt(firstReqs, i)
  /\ UNCHANGED <<variant, unitVars, injectTimers, optWaiters, nextSleeps, nextReqs,
                 hideTasks, lastSubmit, countVars>>

\* The host shows its load-more button while the list is rendered and users
\* of the directory are left to load.
HostHasMore(list) == Len(list) >= Len(HostFirstPage) /\ Len(list) < Len(HostPool)

\* the host sets the children of its list, and adds or removes its button
hostSetList(s, list) ==
  LET s1 == [s EXCEPT !.hostList = list]
  IN IF HostHasMore(list) = s.btnPresent THEN s1
     ELSE IF HostHasMore(list) THEN [s1 EXCEPT !.btnPresent = TRUE]
     ELSE [s1 EXCEPT !.btnPresent = FALSE, !.btnDisplay = "", !.btnDisabled = FALSE,
                     !.btnListener = FALSE,
                     !.loadMoreBtn = IF @ = "cur" THEN "stale" ELSE @]

\* the host's own load-more: the next user of the directory is appended
hostLoadMore(s) ==
  IF HostHasMore(s.hostList)
    THEN hostSetList(s, Append(s.hostList, HostPool[Len(s.hostList) + 1]))
    ELSE s

\* a click on the load-more button, replace variant: loadMoreCaptureHandler
\* when it is attached, else the host's own load-more
ClickLoadMoreReplace ==
  /\ variant = "replace"
  /\ dirDom /\ btnPresent /\ btnDisplay = "" /\ ~btnDisabled
  /\ nClick < MaxClick
  /\ nClick' = nClick + 1
  /\ IF btnListener /\ searchActive
       THEN IF searchLoading \/ ~searchHasMore
              THEN UNCHANGED <<domVars, modVars, nextSleeps>>
              ELSE /\ LET r == loadNextPageStart(St)
                      IN /\ Put(r.s)
                         /\ nextSleeps' = IF r.started
                                            THEN Append(nextSleeps, [root |-> "cur", view |-> nNav,
                                                                     sub |-> nSubmit])
                                            ELSE nextSleeps
       ELSE /\ Put(hostLoadMore(St))
            /\ UNCHANGED nextSleeps
  /\ UNCHANGED <<variant, unitVars, injectTimers, optWaiters, firstReqs, nextReqs,
                 hideTasks, lastSubmit, nNav, nRender, nSubmit>>

\* sleep(150) of a loadNextPage call is over: the request for the next page
NextPageSleepDone(i) ==
  /\ variant = "replace"
  /\ i \in DOMAIN nextSleeps
  /\ nextSleeps' = RemoveAt(nextSleeps, i)
  /\ IF loadNextPageFetchThrows(St)
       THEN /\ Put(loadNextPageFailed(St, nextSleeps[i].root))
            /\ UNCHANGED nextReqs
       ELSE /\ nextReqs' = Append(nextReqs, [filters |-> searchFilters,
                                             page |-> searchPage + 1,
                                             root |-> nextSleeps[i].root,
                                             view |-> nextSleeps[i].view,
                                             sub |-> nextSleeps[i].sub])
            /\ UNCHANGED <<domVars, modVars>>
  /\ UNCHANGED <<variant, unitVars, injectTimers, optWaiters, firstReqs,
                 hideTasks, lastSubmit, countVars>>

\* the response of /user-search.json for a loadNextPage call arrives
NextPageResponse(i, resp) ==
  /\ variant = "replace"
  /\ i \in DOMAIN nextReqs
  /\ Put(loadNextPageDone(St, nextReqs[i], resp))
  /\ nextReqs' = RemoveAt(nextReqs, i)
  /\ UNCHANGED <<variant, unitVars, injectTimers, optWaiters, firstReqs, nextSleeps,
                 hideTasks, lastSubmit, countVars>>

-----------------------------------------------------------------------------
(* Hide variant: usernames, the matching users of the server *)

\* String.prototype.toLowerCase (and the i flag of a regular expression) over
\* the capital letters usernames and card texts are written with
LowerChar(c) ==
  CASE c = "A" -> "a" [] c = "B" -> "b" [] c = "C" -> "c"
    [] c = "S" -> "s" [] c = "E" -> "e" [] c = "N" -> "n" [] OTHER -> c
ToLower(str) == [i \in DOMAIN str |-> LowerChar(str[i])]

\* extractUsernameFromCard(card): the username the card's markup carries,
\* <<>> for null
extractUsernameFromCard(card) == card.name

\* extractSeenTimestampFromCard(card): the timestamp, 0 for null
extractSeenTimestampFromCard(card) == card.ts

PerPage == 100
SafetyLimit == 300

\* The pages /user-search.json serves for a filter, in username order.  A
\* page is the number of users on it and the usernames among them that the
\* directory knows.
PagesF == << [count |-> PerPage, names |-> {<<"a">>, <<"B">>}],
             [count |-> 1, names |-> {<<"c">>}] >>
PagesM == << [count |-> 0, names |-> {}] >>
MatchPages(filters) == IF filters.gender = <<"f">> THEN PagesF ELSE PagesM
ServedPage(filters, page) ==
  IF page \in DOMAIN MatchPages(filters) THEN MatchPages(filters)[page]
  ELSE [count |-> 0, names |-> {}]

\* one turn of the loop of fetchMatchingUsernames, were it to go on until a
\* page comes empty
matchingStepUntilEmpty(t, ok, users) ==
  IF ~ok THEN [done |-> TRUE, set |-> t.set, page |-> t.page]
  ELSE LET set == t.set \cup {ToLower(u) : u \in users.names}
       IN IF users.count = 0
            THEN [done |-> TRUE, set |-> set, page |-> t.page]
          ELSE IF t.page + 1 > SafetyLimit
            THEN [done |-> TRUE, set |-> set, page |-> t.page + 1]
          ELSE [done |-> FALSE, set |-> set, page |-> t.page + 1]

\* one turn of the loop of fetchMatchingUsernames after the request for page
\* t.page failed (ok = FALSE) or was answered with the page users.  done: the
\* loop is left and the set is returned.  safety and page go up together:
\* safety > 300 at the head of the loop is page > SafetyLimit.
matchingStep(t, ok, users) ==
  IF ~ok THEN [done |-> TRUE, set |-> t.set, page |-> t.page]
  ELSE LET set == t.set \cup {ToLower(u) : u \in users.names}
       IN IF users.count < PerPage
            THEN [done |-> TRUE, set |-> set, page |-> t.page]
          ELSE IF t.page + 1 > SafetyLimit
            THEN [done |-> TRUE, set |-> set, page |-> t.page + 1]
          ELSE [done |-> FALSE, set |-> set, page |-> t.page + 1]

\* fetchMatchingUsernames after the response for page t.page, against the
\* pages of MatchPages
fetchMatchingUsernamesStep(t, ok) == matchingStep(t, ok, ServedPage(t.filters, t.page))

-----------------------------------------------------------------------------
(* Hide variant: filtering, sorting, the observer *)

\* the selection of a form: the injected form in the document, or a form the
\* host removed
FormData(s, form) == IF form.ref = "cur" THEN s.formSel ELSE form.sel

\* the display of a card, were the username compared as it is written
CardDisplayCaseSensitive(card, hasAnyFilter, allowed) ==
  IF ~hasAnyFilter THEN ""
  ELSE IF extractUsernameFromCard(card) = <<>> THEN "none"
  ELSE IF ~allowed.isNull /\ extractUsernameFromCard(card) \in allowed.names
    THEN ""
  ELSE "none"

\* the display applyFiltersBySet gives a card
CardDisplay(card, hasAnyFilter, allowed) ==
  IF ~hasAnyFilter THEN ""
  ELSE IF extractUsernameFromCard(card) = <<>> THEN "none"
  ELSE IF ~allowed.isNull /\ ToLower(extractUsernameFromCard(card)) \in allowed.names
    THEN ""
  ELSE "none"

VisibleCount(list) == Cardinality({i \in DOMAIN list : list[i].display = ""})

applyFiltersBySet(s, form, allowedSetOrNull) ==
  IF ~s.dirDom THEN s
  ELSE LET hasAnyFilter == buildFiltersFromForm(FormData(s, form)).hasAnyFilter
           cards == [i \in DOMAIN s.hostList |->
                       [s.hostList[i] EXCEPT
                          !.display = CardDisplay(s.hostList[i], hasAnyFilter,
                                                  allowedSetOrNull)]]
       IN [s EXCEPT !.hostList = cards,
                    !.emptyEl = IF hasAnyFilter /\ VisibleCount(cards) = 0
                                  THEN "block" ELSE "none",
                    !.unreconciled = FALSE]

\* the comparator, were it to put the oldest card first
CompareSeenOldestFirst(a, b) ==
  LET aHas == a.ts # 0
      bHas == b.ts # 0
  IN IF ~aHas /\ ~bHas THEN a.idx - b.idx
     ELSE IF ~aHas /\ bHas THEN 1
     ELSE IF aHas /\ ~bHas THEN -1
     ELSE IF b.ts # a.ts THEN a.ts - b.ts
     ELSE a.idx - b.idx

\* the comparator of decorated.sort in sortCardsByLastSeen
CompareSeen(a, b) ==
  LET aHas == a.ts # 0
      bHas == b.ts # 0
  IN IF ~aHas /\ ~bHas THEN a.idx - b.idx
     ELSE IF ~aHas /\ bHas THEN 1
     ELSE IF aHas /\ ~bHas THEN -1
     ELSE IF b.ts # a.ts THEN b.ts - a.ts
     ELSE a.idx - b.idx

\* Array.prototype.sort with that comparator
RECURSIVE InsertSorted(_, _)
InsertSorted(d, sorted) ==
  IF sorted = <<>> THEN <<d>>
  ELSE IF CompareSeen(d, Head(sorted)) < 0 THEN <<d>> \o sorted
  ELSE <<Head(sorted)>> \o InsertSorted(d, Tail(sorted))
RECURSIVE SortDecorated(_)
SortDecorated(decorated) ==
  IF decorated = <<>> THEN <<>>
  ELSE InsertSorted(decorated[Len(decorated)],
                    SortDecorated(SubSeq(decorated, 1, Len(decorated) - 1)))

\* a sort that shows every card it moves
sortCardsByLastSeenShowAll(s) ==
  IF ~s.dirDom \/ Len(s.hostList) <= 1 THEN s
  ELSE LET decorated == [i \in DOMAIN s.hostList |->
                           [node |-> s.hostList[i], idx |-> i,
                            ts |-> extractSeenTimestampFromCard(s.hostList[i])]]
           sorted == SortDecorated(decorated)
       IN [s EXCEPT !.isReordering = TRUE,
                    !.hostList = [i \in DOMAIN sorted |->
                                   [sorted[i].node EXCEPT !.display = ""]],
                    !.reorderTimers = @ + 1]

\* function sortCardsByLastSeen()
sortCardsByLastSeen(s) ==
  IF ~s.dirDom \/ Len(s.hostList) <= 1 THEN s
  ELSE LET decorated == [i \in DOMAIN s.hostList |->
                           [node |-> s.hostList[i], idx |-> i,
                            ts |-> extractSeenTimestampFromCard(s.hostList[i])]]
           sorted == SortDecorated(decorated)
       IN [s EXCEPT !.isReordering = TRUE,
                    !.hostList = [i \in DOMAIN sorted |-> sorted[i].node],
                    !.reorderTimers = @ + 1]

stopObservingDirectory(s) ==
  [s EXCEPT !.directoryObserver = "null", !.scheduledReapply = FALSE]

reapplyAll(s) ==
  IF s.activeForm.ref = "null" THEN s
  ELSE sortCardsByLastSeen(applyFiltersBySet(s, s.activeForm, s.activeMatchSet))

scheduleReapply(s) ==
  IF s.scheduledReapply THEN s ELSE [s EXCEPT !.scheduledReapply = TRUE]

\* the callback of the 120 ms timer of scheduleReapply
reapplyTimer(s) ==
  LET s1 == [s EXCEPT !.scheduledReapply = FALSE]
  IN IF s1.isReordering THEN s1
     ELSE IF s1.activeForm.ref = "null" THEN s1
     ELSE IF s1.activeForm.ref # "cur"
       THEN stopObservingDirectory([s1 EXCEPT !.activeForm = NullForm,
                                              !.activeMatchSet = NullSet])
     ELSE reapplyAll(s1)

\* findDirectoryRoot() is the directory root, or #main-outlet without one
startObservingDirectory(s) ==
  [stopObservingDirectory(s) EXCEPT
     !.directoryObserver = IF s.dirDom THEN "cur" ELSE "outlet"]

\* the callback of the MutationObserver, were it to take the script's own
\* reordering for a change of the host
observerCallbackUnguarded(s) == scheduleReapply(s)

\* the callback of the MutationObserver
observerCallback(s) == IF s.isReordering THEN s ELSE scheduleReapply(s)

\* Child-list mutations under the directory root are delivered to the
\* observer when the task that made them is over.
DirectoryMutated(s) ==
  IF s.directoryObserver \in {"cur", "outlet"} THEN observerCallback(s) ELSE s
\* the host added or removed children of its list
HostMutated(s) ==
  DirectoryMutated([s EXCEPT !.unreconciled = s.directoryObserver \in {"cur", "outlet"}
                                              \/ @])
\* mutations of #main-outlet outside a directory root
OutletMutated(s) ==
  IF s.directoryObserver = "outlet" THEN observerCallback(s) ELSE s

\* A task of the module that took the state from s0 to s1: the elements it
\* added under the directory root are mutations the observer is told of.
\* (The reordering of sortCardsByLastSeen is one too, and isReordering is
\* true when its callback runs.)
AddedNodes(s0, s1) ==
  \/ s0.emptyEl = "absent" /\ s1.emptyEl # "absent"
  \/ s0.loadingEl = "absent" /\ s1.loadingEl # "absent"
  \/ s1.formCount > s0.formCount
  \/ s1.reorderTimers > s0.reorderTimers
TaskDone(s0, s1) == IF AddedNodes(s0, s1) THEN DirectoryMutated(s1) ELSE s1


-----------------------------------------------------------------------------
(* Hide variant: the initializer *)

\* the then-callback of fetchOptions() in injectFilters
injectFormHide(s, root) ==
  LET s1 == [s EXCEPT !.formCount = IF root = "cur" THEN @ + 1 ELSE @,
                      !.formSel = IF root = "cur" /\ s.formCount = 0 THEN SelNone ELSE @,
                      !.activeForm = IF root = "cur" THEN CurForm ELSE StaleForm(SelNone),
                      !.activeMatchSet = NullSet]
  IN [startObservingDirectory(s1) EXCEPT !.sortTimers = @ + 1]

\* api.onPageChange((url) => ...), hide variant
onPageChangeHide(s, url) ==
  LET s1 == stopObservingDirectory(s)
  IN IF ~isDirectory(url)
       THEN [s1 EXCEPT !.activeForm = NullForm, !.activeMatchSet = NullSet]
       ELSE [s1 EXCEPT !.directoryFullyLoaded = FALSE,
                       !.directoryLoadPromise = NoPromise]

OnPageChangeHide(url) ==
  /\ variant = "hide"
  /\ nNav < MaxNav /\ nNav + nSubmit < MaxHideEvents
  /\ nNav' = nNav + 1
  /\ Put(onPageChangeHide(St, url))
  /\ injectTimers' = IF isDirectory(url) THEN injectTimers + 1 ELSE injectTimers
  /\ UNCHANGED <<variant, unitVars, optWaiters, replaceTasks, hideTasks, lastSubmit,
                 nRender, nSubmit, nClick>>

\* function injectFilters() of the hide variant, run by its timer
InjectFiltersHide ==
  /\ variant = "hide"
  /\ injectTimers > 0
  /\ injectTimers' = injectTimers - 1
  /\ IF ~findControls(St)
       THEN UNCHANGED <<domVars, modVars, optWaiters>>
     ELSE IF formCount > 0
       THEN /\ Put(IF activeForm.ref # "null"
                     THEN TaskDone(St, sortCardsByLastSeen(startObservingDirectory(St)))
                     ELSE St)
            /\ UNCHANGED optWaiters
     ELSE IF options \in {"ok", "empty"}
       THEN /\ Put(injectFormHide(St, "cur"))
            /\ UNCHANGED optWaiters
     ELSE /\ Put([St EXCEPT !.options = "pending"])
          /\ optWaiters' = Append(optWaiters, [root |-> "cur"])
  /\ UNCHANGED <<variant, unitVars, replaceTasks, hideTasks, lastSubmit, countVars>>

\* setTimeout(() => sortCardsByLastSeen(), 0) of the injection
SortTimer ==
  /\ sortTimers > 0
  /\ Put(TaskDone(St, sortCardsByLastSeen([St EXCEPT !.sortTimers = @ - 1])))
  /\ UNCHANGED <<variant, unitVars, taskVars, countVars>>

\* setTimeout(() => { isReordering = false; }, 0) of sortCardsByLastSeen
ReorderTimer ==
  /\ reorderTimers > 0
  /\ Put([St EXCEPT !.reorderTimers = @ - 1, !.isReordering = FALSE])
  /\ UNCHANGED <<variant, unitVars, taskVars, countVars>>

\* the 120 ms timer of scheduleReapply
ReapplyTimer ==
  /\ scheduledReapply
  /\ Put(TaskDone(St, reapplyTimer(St)))
  /\ UNCHANGED <<variant, unitVars, taskVars, countVars>>

\* the submit handler up to its first await
submitHide(s, filters) ==
  LET s1 == [s EXCEPT !.loadingEl = "block"]
  IN IF ~filters.hasAnyFilter
       THEN reapplyAll([s1 EXCEPT !.loadingEl = "none", !.activeForm = CurForm,
                                  !.activeMatchSet = NullSet])
       ELSE s1

\* the handler after await fetchMatchingUsernames(filters), for the set it
\* returned
submitHideDone(s, t, set) ==
  LET s1 == IF t.root = "cur" THEN [s EXCEPT !.loadingEl = "none"] ELSE s
  IN reapplyAll([s1 EXCEPT !.activeForm = t.form, !.activeMatchSet = NameSet(set)])

\* the user sets the dropdowns to sel and submits: the submit handler of the
\* hide variant, with ensureDirectoryFullyLoadedOnce()
SubmitHide(sel) ==
  /\ variant = "hide"
  /\ formCount > 0
  /\ sel \in Selectable(options)
  /\ nSubmit < MaxSubmit /\ nNav + nSubmit < MaxHideEvents
  /\ nSubmit' = nSubmit + 1
  /\ LET filters == buildFiltersFromForm(sel)
         s0 == [St EXCEPT !.formSel = sel]
         s1 == submitHide(s0, filters)
         t == [filters |-> filters, stage |-> "fetching", loader |-> 0, page |-> 1,
               set |-> {}, root |-> "cur", form |-> CurForm]
     IN /\ lastSubmit' = filters
        /\ IF ~filters.hasAnyFilter
             THEN /\ Put(TaskDone(s0, s1))
                  /\ UNCHANGED hideTasks
           ELSE IF directoryFullyLoaded \/ directoryLoadPromise.state = "done"
             THEN /\ Put(TaskDone(s0, s1))
                  /\ hideSubmits' = Append(hideSubmits, t)
                  /\ UNCHANGED loaders
           ELSE IF directoryLoadPromise.state = "pending"
             THEN /\ Put(TaskDone(s0, s1))
                  /\ hideSubmits' =
                       Append(hideSubmits, [t EXCEPT !.stage = "loading",
                                                     !.loader = directoryLoadPromise.id])
                  /\ UNCHANGED loaders
           ELSE /\ Put(TaskDone(s0, [s1 EXCEPT !.directoryLoadPromise =
                                       [state |-> "pending", id |-> nNav + 1]]))
                /\ hideSubmits' =
                     Append(hideSubmits, [t EXCEPT !.stage = "loading",
                                                   !.loader = nNav + 1])
                /\ loaders' = loaders \cup {nNav + 1}
  /\ UNCHANGED <<variant, unitVars, injectTimers, optWaiters, replaceTasks, nNav, nRender, nClick>>


\* A run of ensureAllUsersLoaded finds the load-more button enabled and
\* clicks it; the host appends the next user.  (The polling between the
\* clicks, maxLoops and the per-click timeout are not modelled here.)
LoaderClick(id) ==
  /\ id \in loaders
  /\ dirDom /\ btnPresent /\ ~btnDisabled
  /\ Put(HostMutated(hostLoadMore(St)))
  /\ UNCHANGED <<variant, unitVars, taskVars, countVars>>

\* A run of ensureAllUsersLoaded finds no enabled button for settleMs and
\* returns: the then-callback of ensureDirectoryFullyLoadedOnce runs, and the
\* submit handlers awaiting the promise call fetchMatchingUsernames
LoaderFinish(id) ==
  /\ id \in loaders
  /\ ~(dirDom /\ btnPresent /\ ~btnDisabled)
  /\ loaders' = loaders \ {id}
  /\ Put([St EXCEPT !.directoryFullyLoaded = TRUE,
                    !.directoryLoadPromise =
                       IF @ = [state |-> "pending", id |-> id]
                         THEN [state |-> "done", id |-> id] ELSE @])
  /\ hideSubmits' = [i \in DOMAIN hideSubmits |->
                       IF hideSubmits[i].stage = "loading" /\ hideSubmits[i].loader = id
                         THEN [hideSubmits[i] EXCEPT !.stage = "fetching"]
                         ELSE hideSubmits[i]]
  /\ UNCHANGED <<variant, unitVars, injectTimers, optWaiters, replaceTasks, lastSubmit, countVars>>

\* the response of /user-search.json for a page of fetchMatchingUsernames
\* arrives; when the loop is left the submit handler goes on
MatchingResponse(i, ok) ==
  /\ i \in DOMAIN hideSubmits
  /\ hideSubmits[i].stage = "fetching"
  /\ LET t == hideSubmits[i]
         r == fetchMatchingUsernamesStep(t, ok)
     IN IF r.done
          THEN /\ Put(TaskDone(St, submitHideDone(St, t, r.set)))
               /\ hideSubmits' = RemoveAt(hideSubmits, i)
          ELSE /\ hideSubmits' = [hideSubmits EXCEPT ![i].set = r.set, ![i].page = r.page]
               /\ UNCHANGED <<domVars, modVars>>
  /\ UNCHANGED <<variant, unitVars, injectTimers, optWaiters, replaceTasks, loaders,
                 lastSubmit, countVars>>

\* a click of the user on the host's load-more button, hide variant
ClickLoadMoreHide ==
  /\ variant = "hide"
  /\ dirDom /\ btnPresent /\ ~btnDisabled
  /\ Put(HostMutated(hostLoadMore(St)))
  /\ UNCHANGED <<variant, unitVars, taskVars, countVars>>

-----------------------------------------------------------------------------
(* Both variants: options, the form, the host *)

\* the callbacks, were they not to run once the request has failed
RECURSIVE runWaitersOnSuccess(_, _, _)
runWaitersOnSuccess(s, waiters, v) ==
  IF waiters = <<>> \/ s.options = "empty" THEN s
  ELSE runWaitersOnSuccess(IF v = "replace" THEN injectFormReplace(s, Head(waiters).root)
                                            ELSE injectFormHide(s, Head(waiters).root),
                           Tail(waiters), v)

\* the callbacks registered on optionsPromise run in registration order
RECURSIVE runWaiters(_, _, _)
runWaiters(s, waiters, v) ==
  IF waiters = <<>> THEN s
  ELSE runWaiters(IF v = "replace" THEN injectFormReplace(s, Head(waiters).root)
                                   ELSE injectFormHide(s, Head(waiters).root),
                  Tail(waiters), v)

\* the response of /user-search/options.json arrives (the then or the catch
\* of fetchOptions), and the callbacks waiting on the promise run
OptionsResponse(ok) ==
  /\ options = "pending"
  /\ Put(runWaiters([St EXCEPT !.options = IF ok THEN "ok" ELSE "empty"],
                    optWaiters, variant))
  /\ optWaiters' = <<>>
  /\ UNCHANGED <<variant, unitVars, injectTimers, replaceTasks, hideTasks, lastSubmit, countVars>>

\* the user changes the dropdowns without submitting
SelectOption(sel) ==
  /\ variant = "hide"
  /\ formCount > 0
  /\ sel \in Selectable(options)
  /\ sel # formSel
  /\ Put([St EXCEPT !.formSel = sel])
  /\ UNCHANGED <<variant, unitVars, taskVars, countVars>>


\* the state after the module is loaded
InitState ==
  [dirDom |-> FALSE, secDisplay |-> "", hostList |-> <<>>,
   btnPresent |-> FALSE, btnDisplay |-> "", btnDisabled |-> FALSE,
   btnListener |-> FALSE, formCount |-> 0, formSel |-> SelNone,
   emptyEl |-> "absent", loadingEl |-> "absent", resInDoc |-> FALSE,
   resDisplay |-> "none", resCards |-> <<>>,
   options |-> "none", originalSection |-> NullRef,
   originalSectionDisplay |-> "", templateNode |-> "null",
   resultsSection |-> "null", searchActive |-> FALSE, searchFilters |-> Null,
   searchPage |-> 1, searchHasMore |-> FALSE, searchLoading |-> FALSE,
   loadMoreBtn |-> "null", loadMoreCaptureHandler |-> FALSE, activeForm |-> NullForm,
   directoryFullyLoaded |-> FALSE, directoryLoadPromise |-> NoPromise,
   activeMatchSet |-> NullSet, directoryObserver |-> "null",
   scheduledReapply |-> FALSE, isReordering |-> FALSE,
   reorderTimers |-> 0, sortTimers |-> 0, unreconciled |-> FALSE]

\* the Reset button: window.location.reload() loads the page and the module anew
ResetClick ==
  /\ formCount > 0
  /\ Put(InitState)
  /\ injectTimers' = 0
  /\ optWaiters' = <<>>
  /\ firstReqs' = <<>>
  /\ nextSleeps' = <<>>
  /\ nextReqs' = <<>>
  /\ loaders' = {}
  /\ hideSubmits' = <<>>
  /\ UNCHANGED <<variant, unitVars, lastSubmit, countVars>>

\* the host renders the directory page
HostRender(list) ==
  /\ ~dirDom
  /\ nRender < MaxRender
  /\ nRender' = nRender + 1
  /\ Put(OutletMutated(hostSetList([St EXCEPT !.dirDom = TRUE, !.secDisplay = ""], list)))
  /\ UNCHANGED <<variant, unitVars, taskVars, nNav, nSubmit, nClick>>

\* what a reference to a node of the directory DOM becomes when the host
\* removes that DOM from the document
StaleRoot(s, root) ==
  IF root = "cur" THEN (IF s.btnPresent THEN "staleBtn" ELSE "staleNoBtn") ELSE root
StaleNode(ref) == IF ref = "cur" THEN "stale" ELSE ref
StaleTasks(s, tasks) == [i \in DOMAIN tasks |-> [tasks[i] EXCEPT !.root = StaleRoot(s, @)]]
StaleSubmits(s, tasks) ==
  [i \in DOMAIN tasks |->
     [tasks[i] EXCEPT !.root = StaleRoot(s, @),
                      !.form = IF @.ref = "cur" THEN StaleForm(s.formSel) ELSE @]]

\* the host removes the directory DOM, and with it what was injected into it
hostTeardown(s) ==
  [s EXCEPT !.dirDom = FALSE, !.secDisplay = "", !.hostList = <<>>,
            !.btnPresent = FALSE, !.btnDisplay = "", !.btnDisabled = FALSE,
            !.btnListener = FALSE, !.formCount = 0, !.formSel = SelNone,
            !.emptyEl = "absent", !.loadingEl = "absent", !.resInDoc = FALSE,
            !.originalSection =
               IF @.ref = "cur" THEN StaleRef(FirstKind(s.hostList)) ELSE @,
            !.loadMoreBtn = StaleNode(@),
            !.activeForm = IF @.ref = "cur" THEN StaleForm(s.formSel) ELSE @,
            !.directoryObserver = StaleNode(@),
            !.unreconciled = FALSE]

HostTeardown ==
  /\ dirDom
  /\ Put(OutletMutated(hostTeardown(St)))
  /\ optWaiters' = StaleTasks(St, optWaiters)
  /\ firstReqs' = StaleTasks(St, firstReqs)
  /\ nextSleeps' = StaleTasks(St, nextSleeps)
  /\ nextReqs' = StaleTasks(St, nextReqs)
  /\ hideSubmits' = StaleSubmits(St, hideSubmits)
  /\ UNCHANGED <<variant, unitVars, injectTimers, loaders, lastSubmit, countVars>>

\* the host fills the list it rendered empty or with a placeholder
HostFill ==
  /\ dirDom
  /\ Len(hostList) < Len(HostFirstPage)
  /\ Put(HostMutated(hostSetList(St, HostFirstPage)))
  /\ UNCHANGED <<variant, unitVars, taskVars, countVars>>

\* the host renders the rows of its list anew: fresh nodes in the host's order
HostRefresh ==
  /\ variant = "hide"
  /\ dirDom
  /\ Len(hostList) >= Len(HostFirstPage)
  /\ Put(HostMutated([St EXCEPT !.hostList = SubSeq(HostPool, 1, Len(hostList))]))
  /\ UNCHANGED <<variant, unitVars, taskVars, countVars>>

-----------------------------------------------------------------------------
(* Hide variant: ensureAllUsersLoaded, run on its own.  Time is the time   *)
(* its sleeps take: every sleep(pollMs) lasts pollMs, synchronous code    *)
(* takes none.  Date.now() - lastGrowthAt and Date.now() - startTime are  *)
(* kept as elapsed times, up to the value they are compared with.         *)

\* const max = maxLoops || 200
DefaultMaxLoops == 200
\* const perClickTimeoutMs = 10000
PerClickTimeoutMs == 10000
\* const pollMs = 200
PollMs == 200
\* const settleMs = 800
SettleMs == 800

\* load-more clicks after which a scripted host list stops growing, at most
MaxGrowth == 2
\* the largest maxLoops a run against an unrestricted host is called with
MaxFreeLoops == 2

NoLoad == [pc |-> "none", max |-> 0, loops |-> 0, lastCount |-> -1,
           sinceGrowth |-> 0, startCount |-> 0, sinceStart |-> 0]
NoPlan == [mode |-> "none", n |-> 0, left |-> 0, pending |-> FALSE]
NoCall == [fn |-> "none"]

Min(a, b) == IF a <= b THEN a ELSE b

\* ensureAllUsersLoaded(maxLoops) at its first statement after the locals
StartLoad(maxLoops) ==
  [NoLoad EXCEPT !.pc = "start",
                 !.max = IF maxLoops = 0 THEN DefaultMaxLoops ELSE maxLoops]

\* section && section.children ? section.children.length : 0
ChildCount(s) == IF s.dirDom THEN Len(s.hostList) ELSE 0

\* !(!btn || btn.disabled || btn.classList.contains("disabled"))
ButtonUsable(s) == s.dirDom /\ s.btnPresent /\ ~s.btnDisabled

\* startCount and startTime are dead outside the inner loop
leaveInner(l) == [l EXCEPT !.startCount = 0, !.sinceStart = 0]

\* one pass of `while (loops < max)` from its head to its first await, its
\* break or the end of the loop: [l |-> the locals after, clicked |-> btn.click() ran]
loadOuter(l, s) ==
  IF l.loops >= l.max THEN [l |-> [l EXCEPT !.pc = "done"], clicked |-> FALSE]
  ELSE
    LET count == ChildCount(s)
        l1 == IF count # l.lastCount
                THEN [l EXCEPT !.lastCount = count, !.sinceGrowth = 0] ELSE l
    IN IF ~ButtonUsable(s)
         THEN IF l1.sinceGrowth >= SettleMs
                THEN [l |-> [l1 EXCEPT !.pc = "done"], clicked |-> FALSE]
                ELSE [l |-> [l1 EXCEPT !.pc = "settle"], clicked |-> FALSE]
         ELSE [l |-> [l1 EXCEPT !.pc = "inner", !.startCount = count,
                                !.loops = @ + 1, !.sinceStart = 0],
               clicked |-> TRUE]

\* await sleep(pollMs) of the settle branch is over: `continue`
loadSettleWake(l, s) ==
  loadOuter([l EXCEPT !.sinceGrowth = Min(@ + PollMs, SettleMs)], s)

\* the inner loop, were it left after its first sleep whatever the list and
\* the button
loadInnerWakeOnce(l, s) ==
  LET l1 == [l EXCEPT !.sinceGrowth = Min(@ + PollMs, SettleMs),
                      !.sinceStart = Min(@ + PollMs, PerClickTimeoutMs)]
      countNow == ChildCount(s)
  IN IF countNow > l1.startCount
       THEN loadOuter(leaveInner([l1 EXCEPT !.sinceGrowth = 0, !.lastCount = countNow]), s)
     ELSE loadOuter(leaveInner(l1), s)

\* await sleep(pollMs) of the inner loop is over: the rest of its body, its
\* condition, and the outer loop when it is left
loadInnerWake(l, s) ==
  LET l1 == [l EXCEPT !.sinceGrowth = Min(@ + PollMs, SettleMs),
                      !.sinceStart = Min(@ + PollMs, PerClickTimeoutMs)]
      countNow == ChildCount(s)
  IN IF countNow > l1.startCount
       THEN loadOuter(leaveInner([l1 EXCEPT !.sinceGrowth = 0, !.lastCount = countNow]), s)
     ELSE IF ~(s.dirDom /\ s.btnPresent) THEN loadOuter(leaveInner(l1), s)
     ELSE IF l1.sinceStart < PerClickTimeoutMs THEN [l |-> l1, clicked |-> FALSE]
     ELSE loadOuter(leaveInner(l1), s)

\* the host's click handler of its load-more button: a scripted host starts
\* loading the next users
hostClicked(h) == IF h.mode = "free" THEN h ELSE [h EXCEPT !.pending = TRUE]

\* the card a host appends to a list
NextCard(list) == HostPool[Min(Len(list) + 1, Len(HostPool))]

\* the button of a scripted host whose list has `left` growths to come
PlanButton(mode, left) ==
  [present |-> (left > 0 \/ mode # "vanish"), disabled |-> (left = 0 /\ mode = "disable")]

\* the call of ensureAllUsersLoaded runs to its first await
LoadCall ==
  /\ variant = "hide"
  /\ load.pc = "start"
  /\ LET r == loadOuter(load, St)
     IN /\ load' = r.l
        /\ hostPlan' = IF r.clicked THEN hostClicked(hostPlan) ELSE hostPlan
  /\ UNCHANGED <<variant, domVars, modVars, taskVars, countVars, call>>

\* a sleep(pollMs) of the run is over; a scripted host has answered the
\* click by then
LoadWake ==
  /\ variant = "hide"
  /\ load.pc \in {"settle", "inner"}
  /\ ~hostPlan.pending
  /\ LET r == IF load.pc = "settle" THEN loadSettleWake(load, St)
              ELSE loadInnerWake(load, St)
     IN /\ load' = r.l
        /\ hostPlan' = IF r.clicked THEN hostClicked(hostPlan) ELSE hostPlan
  /\ UNCHANGED <<variant, domVars, modVars, taskVars, countVars, call>>

\* a scripted host answers a click: the list grows while users are left,
\* and with the last of them the button goes, is disabled or stays
HostLoadsMore ==
  /\ variant = "hide"
  /\ hostPlan.mode \in {"vanish", "disable", "stay"}
  /\ hostPlan.pending
  /\ IF hostPlan.left > 0
       THEN LET b == PlanButton(hostPlan.mode, hostPlan.left - 1)
            IN /\ hostPlan' = [hostPlan EXCEPT !.left = @ - 1, !.pending = FALSE]
               /\ Put([St EXCEPT !.hostList = Append(@, NextCard(@)),
                                 !.btnPresent = b.present, !.btnDisabled = b.disabled])
       ELSE /\ hostPlan' = [hostPlan EXCEPT !.pending = FALSE]
            /\ UNCHANGED <<domVars, modVars>>
  /\ UNCHANGED <<variant, taskVars, countVars, load, call>>

\* an unrestricted host: any list, any button, at any time of the run
HostFree(k, present, disabled) ==
  /\ variant = "hide"
  /\ hostPlan.mode = "free"
  /\ load.pc \in {"settle", "inner"}
  /\ Put([St EXCEPT !.hostList = [i \in 1..k |-> NextCard(SubSeq(HostPool, 1, i - 1))],
                    !.btnPresent = present,
                    !.btnDisabled = present /\ disabled])
  /\ UNCHANGED <<variant, taskVars, countVars, unitVars>>

-----------------------------------------------------------------------------
(* Hide variant: sortCardsByLastSeen, called on its own on a list of cards *)

\* cards of a list that is sorted, at most
MaxSortLen == 4
\* last-seen times of those cards: 0 for a card without one, else 1..MaxStamp
MaxStamp == 3

SortNames == <<"a", "b", "c", "d", "e", "f">>

\* the children of the directory section: the i-th card is of user
\* SortNames[i] and was last seen at stamps[i]
SortList(stamps) ==
  [i \in DOMAIN stamps |-> HostCard("card", <<SortNames[i]>>, stamps[i])]
SortLists ==
  {SortList(stamps) : stamps \in UNION {[1..n -> 0..MaxStamp] : n \in 0..MaxSortLen}}

\* sortCardsByLastSeen() is called
SortCall ==
  /\ variant = "hide"
  /\ call.fn = "sortCardsByLastSeen" /\ ~call.done
  /\ call' = [call EXCEPT !.done = TRUE]
  /\ Put(sortCardsByLastSeen(St))
  /\ UNCHANGED <<variant, taskVars, countVars, load, hostPlan>>

\* sortCardsByLastSeen() is called once more, on the list as the first call
\* left it
SortAgain ==
  /\ variant = "hide"
  /\ call.fn = "sortCardsByLastSeen" /\ call.done /\ ~call.again
  /\ call' = [call EXCEPT !.again = TRUE, !.once = hostList]
  /\ Put(sortCardsByLastSeen(St))
  /\ UNCHANGED <<variant, taskVars, countVars, load, hostPlan>>

-----------------------------------------------------------------------------
(* buildFiltersFromForm, called on its own on a form *)

\* what a field of the form may hold: nothing (no such field), the empty
\* value of "Do not consider", blanks, a value, a value between blanks
FieldInputs == {Missing, <<>>, <<" ">>, <<"f">>, <<" ", "f", " ">>, <<"f", " ", "g">>}
FormInputs ==
  [gender : FieldInputs, country : FieldInputs, listen : FieldInputs, share : FieldInputs]

\* buildFiltersFromForm(form) is called
BuildFiltersCall ==
  /\ call.fn = "buildFiltersFromForm" /\ ~call.done
  /\ call' = [call EXCEPT !.done = TRUE, !.result = buildFiltersFromForm(call.args)]
  /\ UNCHANGED <<variant, domVars, modVars, taskVars, countVars, load, hostPlan>>

-----------------------------------------------------------------------------
(* URL-parameter variants (src/unnamed/part_000, part_001): URLs and their *)
(* query strings.  A URL is a sequence of characters; a run of letters    *)
(* such as a parameter name is written as one element.                    *)

\* the characters of the model that a query string percent-encodes
Reserved == {"&", "=", "+", "%", "?", "#"}
PercentCode(c) ==
  CASE c = "&" -> <<"2", "6">> [] c = "=" -> <<"3", "D">> [] c = "+" -> <<"2", "B">>
    [] c = "%" -> <<"2", "5">> [] c = "?" -> <<"3", "F">> [] c = "#" -> <<"2", "3">>

\* the serializer, were it to write every character as it is
EncodeCharPlain(c) == <<c>>

\* URLSearchParams.toString(): the application/x-www-form-urlencoded serializer
EncodeChar(c) ==
  IF c = " " THEN <<"+">>
  ELSE IF c \in Reserved THEN <<"%">> \o PercentCode(c)
  ELSE <<c>>
RECURSIVE Encode(_)
Encode(str) == IF str = <<>> THEN <<>> ELSE EncodeChar(Head(str)) \o Encode(Tail(str))

\* the decoding of a name or value by the application/x-www-form-urlencoded parser
RECURSIVE Decode(_)
Decode(str) ==
  IF str = <<>> THEN <<>>
  ELSE IF Head(str) = "+" THEN <<" ">> \o Decode(Tail(str))
  ELSE IF Head(str) = "%" /\ Len(str) >= 3
          /\ \E c \in Reserved : PercentCode(c) = SubSeq(str, 2, 3)
    THEN <<CHOOSE c \in Reserved : PercentCode(c) = SubSeq(str, 2, 3)>>
           \o Decode(SubSeq(str, 4, Len(str)))
  ELSE <<Head(str)>> \o Decode(Tail(str))

\* String.prototype.indexOf, from 1; 0 when c is not in str
IndexOf(str, c) ==
  IF \E i \in DOMAIN str : str[i] = c
    THEN CHOOSE i \in DOMAIN str : str[i] = c /\ \A j \in 1..(i - 1) : str[j] # c
    ELSE 0
RECURSIVE SplitOn(_, _)
SplitOn(str, c) ==
  LET i == IndexOf(str, c)
  IN IF i = 0 THEN <<str>>
     ELSE <<SubSeq(str, 1, i - 1)>> \o SplitOn(SubSeq(str, i + 1, Len(str)), c)

\* new URLSearchParams(search): the list of <<name, value>> of a query string
ParsePair(piece) ==
  LET i == IndexOf(piece, "=")
  IN IF i = 0 THEN <<Decode(piece), <<>>>>
     ELSE <<Decode(SubSeq(piece, 1, i - 1)), Decode(SubSeq(piece, i + 1, Len(piece)))>>
NonEmpty(piece) == piece # <<>>
ParseQuery(search) ==
  LET pieces == SelectSeq(SplitOn(search, "&"), NonEmpty)
  IN [i \in DOMAIN pieces |-> ParsePair(pieces[i])]

\* URLSearchParams.toString()
RECURSIVE SerializeQuery(_)
SerializeQuery(sp) ==
  IF sp = <<>> THEN <<>>
  ELSE Encode(sp[1][1]) \o <<"=">> \o Encode(sp[1][2])
       \o (IF Len(sp) > 1 THEN <<"&">> \o SerializeQuery(Tail(sp)) ELSE <<>>)

\* URLSearchParams: has, get (Missing for null), delete, set
SpHas(sp, k) == \E i \in DOMAIN sp : sp[i][1] = k
SpFirst(sp, k) == CHOOSE i \in DOMAIN sp : sp[i][1] = k /\ \A j \in 1..(i - 1) : sp[j][1] # k
SpGet(sp, k) == IF SpHas(sp, k) THEN sp[SpFirst(sp, k)][2] ELSE Missing
RECURSIVE SpDelete(_, _)
SpDelete(sp, k) ==
  IF sp = <<>> THEN <<>>
  ELSE IF sp[1][1] = k THEN SpDelete(Tail(sp), k)
  ELSE <<sp[1]>> \o SpDelete(Tail(sp), k)
SpSet(sp, k, v) ==
  IF SpHas(sp, k)
    THEN LET i == SpFirst(sp, k)
         IN SubSeq(sp, 1, i - 1) \o << <<k, v>> >> \o SpDelete(SubSeq(sp, i + 1, Len(sp)), k)
    ELSE Append(sp, <<k, v>>)

\* new URL(url, origin) of a path-absolute URL: its pathname and its search
\* without the "?"
UrlNoHash(url) ==
  LET h == IndexOf(url, "#") IN IF h = 0 THEN url ELSE SubSeq(url, 1, h - 1)
UrlPathname(url) ==
  LET u == UrlNoHash(url)
      q == IndexOf(u, "?")
  IN IF q = 0 THEN u ELSE SubSeq(u, 1, q - 1)
UrlSearch(url) ==
  LET u == UrlNoHash(url)
      q == IndexOf(u, "?")
  IN IF q = 0 THEN <<>> ELSE SubSeq(u, q + 1, Len(u))

\* const HB_KEYS = ["hb_gender", "hb_country", "hb_listen", "hb_share"]
HB_KEYS == <<"hb_gender", "hb_country", "hb_listen", "hb_share">>

\* (x || ""): null and undefined give the empty string
OrEmpty(v) == IF v = Missing THEN <<>> ELSE v

(* part_001: sortBy / sortDirection *)

\* HB_KEYS.forEach of buildUrlWithParams, from the i-th key on
RECURSIVE ApplyHb001(_, _, _)
ApplyHb001(sp, hb, i) ==
  IF i > Len(HB_KEYS) THEN sp
  ELSE LET k == HB_KEYS[i]
           v == Trim(OrEmpty(hb[k]))
       IN ApplyHb001(IF v # <<>> THEN SpSet(sp, <<k>>, v) ELSE SpDelete(sp, <<k>>),
                     hb, i + 1)

\* buildUrlWithParams of part_001, were it to start from an empty query
buildUrlWithParams001Fresh(hb, sort, baseUrl) ==
  LET sp0 == <<>>
      sp1 == ApplyHb001(sp0, hb, 1)
      o == Trim(OrEmpty(sort.order))
      order == IF o # <<>> THEN o ELSE <<"last_seen">>
      sp2 == SpSet(sp1, <<"order">>, order)
      sp3 == IF sort.direction = "asc" THEN SpSet(sp2, <<"asc">>, <<"1">>)
             ELSE SpDelete(sp2, <<"asc">>)
      search == SerializeQuery(sp3)
  IN UrlPathname(baseUrl) \o (IF search = <<>> THEN <<>> ELSE <<"?">> \o search)

\* function buildUrlWithParams({ hb, sort }, baseUrl), part_001
buildUrlWithParams001(hb, sort, baseUrl) ==
  LET sp0 == ParseQuery(UrlSearch(baseUrl))
      sp1 == ApplyHb001(sp0, hb, 1)
      o == Trim(OrEmpty(sort.order))
      order == IF o # <<>> THEN o ELSE <<"last_seen">>
      sp2 == SpSet(sp1, <<"order">>, order)
      sp3 == IF sort.direction = "asc" THEN SpSet(sp2, <<"asc">>, <<"1">>)
             ELSE SpDelete(sp2, <<"asc">>)
      search == SerializeQuery(sp3)
  IN UrlPathname(baseUrl) \o (IF search = <<>> THEN <<>> ELSE <<"?">> \o search)

\* function readHbParams(url), part_001: a key without a value is not in out
readHbParams(url) ==
  LET sp == ParseQuery(UrlSearch(url))
  IN [k \in {HB_KEYS[i] : i \in DOMAIN HB_KEYS} |->
        IF OrEmpty(SpGet(sp, <<k>>)) # <<>> THEN SpGet(sp, <<k>>) ELSE Missing]

\* function readSortParams(url), part_001
readSortParams(url) ==
  LET sp == ParseQuery(UrlSearch(url))
      o == Trim(OrEmpty(SpGet(sp, <<"order">>)))
  IN [order |-> IF o # <<>> THEN o ELSE <<"last_seen">>,
      direction |-> IF SpHas(sp, <<"asc">>) THEN "asc" ELSE "desc"]

(* part_000: order / asc *)

\* const DEFAULT_ORDER = "last_seen_at"; const DEFAULT_DIR = "desc"
DEFAULT_ORDER == <<"last_seen_at">>
DEFAULT_DIR == "desc"

\* function defaultDirFor(order), part_000
defaultDirFor(order) == IF order = <<"username">> THEN "asc" ELSE DEFAULT_DIR

\* HB_KEYS.forEach of buildUrlWithParams, from the i-th key on
RECURSIVE ApplyHb000(_, _, _)
ApplyHb000(sp, hb, i) ==
  IF i > Len(HB_KEYS) THEN sp
  ELSE LET k == HB_KEYS[i]
           v == OrEmpty(hb[k])
       IN ApplyHb000(IF v # <<>> THEN SpSet(sp, <<k>>, v) ELSE SpDelete(sp, <<k>>),
                     hb, i + 1)

\* the order and dir part of buildUrlWithParams, part_000; an undefined
\* order is Missing, an undefined dir "undefined"
ApplySort000(sp1, order, dir) ==
  LET sp2 == IF order = Missing THEN sp1
             ELSE IF order # <<>> THEN SpSet(sp1, <<"order">>, order)
             ELSE SpDelete(sp1, <<"order">>)
  IN IF dir = "undefined" THEN sp2
     ELSE IF dir = "asc" THEN SpSet(sp2, <<"asc">>, <<"true">>)
     ELSE SpDelete(sp2, <<"asc">>)

\* `${url.pathname}${qs ? `?${qs}` : ""}`
PathWithQuery(href, sp) ==
  LET qs == SerializeQuery(sp)
  IN UrlPathname(href) \o (IF qs = <<>> THEN <<>> ELSE <<"?">> \o qs)

\* function buildUrlWithParams({ hb, order, dir }), part_000, on
\* window.location.href
buildUrlWithParams000(hb, order, dir, href) ==
  PathWithQuery(href, ApplySort000(ApplyHb000(ParseQuery(UrlSearch(href)), hb, 1),
                                   order, dir))

\* buildUrlWithParams({ order, dir }), part_000: hb is undefined and the
\* hb_* parameters are not touched
buildUrlWithSort000(order, dir, href) ==
  PathWithQuery(href, ApplySort000(ParseQuery(UrlSearch(href)), order, dir))

\* function readDirParams(), part_000, on window.location.search
readDirParams(href) ==
  LET sp == ParseQuery(UrlSearch(href))
  IN [hb |-> [k \in {HB_KEYS[i] : i \in DOMAIN HB_KEYS} |-> OrEmpty(SpGet(sp, <<k>>))],
      order |-> OrEmpty(SpGet(sp, <<"order">>)),
      dir |-> IF OrEmpty(SpGet(sp, <<"asc">>)) = <<"true">> THEN "asc" ELSE "desc"]

\* function syncFormFromUrl(form), part_000: the values it assigns to the
\* selects of the form
syncFormFromUrl(href) ==
  LET p == readDirParams(href)
      effectiveOrder == IF p.order # <<>> THEN p.order ELSE DEFAULT_ORDER
      effectiveDir == IF p.order # <<>> THEN p.dir ELSE defaultDirFor(effectiveOrder)
  IN [hb |-> p.hb, order |-> effectiveOrder, dir |-> effectiveDir]

(* The states that are written to the URL and read back *)

\* a filter value: none, a plain one, one with a blank, one of the
\* characters a query string encodes
FilterValues == {<<>>, <<"f">>, <<"a", " ", "b">>, <<"%", "2", "6", "&", "=", "+">>}
HbStates == [{HB_KEYS[i] : i \in DOMAIN HB_KEYS} -> FilterValues]
\* SORT_FIELDS of part_001 and of part_000, the empty order and no order
Orders001 == {Missing, <<>>, <<"last_seen">>, <<"username">>, <<"joined">>}
Orders000 == {Missing, <<>>, <<"last_seen_at">>, <<"username">>, <<"created_at">>}
Directions == {"asc", "desc"}
\* window.location.href when the state is written
BaseUrls ==
  { <<"/u">>,
    <<"/u", "?", "hb_gender", "=", "zz", "&", "asc", "=", "1", "&", "order", "=",
      "joined", "&", "page", "=", "2", "&", "hb_gender", "=", "dup">>,
    <<"/u", "?", "q", "=", "a", "%", "2", "6", "b", "+", "c", "&", "asc", "=", "true",
      "#", "order", "=", "x">> }

\* function applyDirectoryParams({ hb, sort }), part_001
ApplyDirectoryParams ==
  /\ call.fn = "applyDirectoryParams" /\ call.stage = "call"
  /\ call' = [call EXCEPT !.stage = "routed",
                          !.location = buildUrlWithParams001(call.args.hb, call.args.sort, @)]
  /\ UNCHANGED <<variant, domVars, modVars, taskVars, countVars, load, hostPlan>>

\* the page at the new URL reads its parameters, part_001
ReadParams001 ==
  /\ call.fn = "applyDirectoryParams" /\ call.stage = "routed"
  /\ call' = [call EXCEPT !.stage = "read",
                          !.result = [hb |-> readHbParams(call.location),
                                      sort |-> readSortParams(call.location)]]
  /\ UNCHANGED <<variant, domVars, modVars, taskVars, countVars, load, hostPlan>>

\* function applyParams(next), part_000
ApplyParams ==
  /\ call.fn = "applyParams" /\ call.stage = "call"
  /\ call' = [call EXCEPT !.stage = "routed",
                          !.location = buildUrlWithParams000(call.args.hb, call.args.order,
                                                             call.args.dir, @)]
  /\ UNCHANGED <<variant, domVars, modVars, taskVars, countVars, load, hostPlan>>

\* syncFormFromUrl(form) on the page at the new URL, part_000
SyncFormFromUrl ==
  /\ call.fn = "applyParams" /\ call.stage = "routed"
  /\ call' = [call EXCEPT !.stage = "read", !.result = syncFormFromUrl(call.location)]
  /\ UNCHANGED <<variant, domVars, modVars, taskVars, countVars, load, hostPlan>>

-----------------------------------------------------------------------------

\* the document and the module variables are those of the record s
InitFrom(s) ==
  /\ dirDom = s.dirDom /\ secDisplay = s.secDisplay
  /\ hostList = s.hostList /\ btnPresent = s.btnPresent
  /\ btnDisplay = s.btnDisplay /\ btnDisabled = s.btnDisabled
  /\ btnListener = s.btnListener /\ formCount = s.formCount
  /\ formSel = s.formSel /\ emptyEl = s.emptyEl
  /\ loadingEl = s.loadingEl /\ resInDoc = s.resInDoc
  /\ resDisplay = s.resDisplay /\ resCards = s.resCards
  /\ options = s.options /\ originalSection = s.originalSection
  /\ originalSectionDisplay = s.originalSectionDisplay /\ templateNode = s.templateNode
  /\ resultsSection = s.resultsSection /\ searchActive = s.searchActive
  /\ searchFilters = s.searchFilters /\ searchPage = s.searchPage
  /\ searchHasMore = s.searchHasMore /\ searchLoading = s.searchLoading
  /\ loadMoreBtn = s.loadMoreBtn /\ loadMoreCaptureHandler = s.loadMoreCaptureHandler
  /\ activeForm = s.activeForm /\ directoryFullyLoaded = s.directoryFullyLoaded
  /\ directoryLoadPromise = s.directoryLoadPromise /\ activeMatchSet = s.activeMatchSet
  /\ directoryObserver = s.directoryObserver /\ scheduledReapply = s.scheduledReapply
  /\ isReordering = s.isReordering /\ reorderTimers = s.reorderTimers
  /\ sortTimers = s.sortTimers /\ unreconciled = s.unreconciled

\* nothing is pending, nothing has happened
InitTasks ==
  /\ injectTimers = 0 /\ optWaiters = <<>>
  /\ firstReqs = <<>> /\ nextSleeps = <<>> /\ nextReqs = <<>>
  /\ loaders = {} /\ hideSubmits = <<>> /\ lastSubmit = Null
  /\ nNav = 0 /\ nRender = 0 /\ nSubmit = 0 /\ nClick = 0

Init ==
  /\ variant \in {"replace", "hide"}
  /\ InitFrom(InitState)
  /\ InitTasks
  /\ load = NoLoad /\ hostPlan = NoPlan /\ call = NoCall

\* the host and the options request, in both variants
NextHost ==
  \/ \E ok \in BOOLEAN : OptionsResponse(ok)
  \/ ResetClick
  \/ \E list \in HostLists : HostRender(list)
  \/ HostTeardown
  \/ HostFill

NextReplace ==
  \/ \E url \in Urls : OnPageChangeReplace(url)
  \/ InjectFiltersReplace
  \/ \E sel \in FormChoices : SubmitReplace(sel)
  \/ \E i \in DOMAIN firstReqs, resp \in Responses : FirstPageResponse(i, resp)
  \/ ClickLoadMoreReplace
  \/ \E i \in DOMAIN nextSleeps : NextPageSleepDone(i)
  \/ \E i \in DOMAIN nextReqs, resp \in Responses : NextPageResponse(i, resp)
  \/ NextHost

NextHide ==
  \/ \E url \in Urls : OnPageChangeHide(url)
  \/ InjectFiltersHide
  \/ SortTimer
  \/ ReorderTimer
  \/ ReapplyTimer
  \/ \E sel \in FormChoices : SelectOption(sel)
  \/ \E sel \in FormChoices : SubmitHide(sel)
  \/ \E id \in loaders : LoaderClick(id)
  \/ \E id \in loaders : LoaderFinish(id)
  \/ \E i \in DOMAIN hideSubmits, ok \in BOOLEAN : MatchingResponse(i, ok)
  \/ ClickLoadMoreHide
  \/ HostRefresh
  \/ NextHost

Next == NextReplace \/ NextHide

\* either variant of the initializer is the one installed
Spec == Init /\ [][Next]_vars
\* the replace variant is installed
InitReplace == Init /\ variant = "replace"
SpecReplace == InitReplace /\ [][NextReplace]_vars
\* the hide variant is installed
InitHide == Init /\ variant = "hide"
SpecHide == InitHide /\ [][NextHide]_vars

\* ensureAllUsersLoaded(maxLoops) is called on a rendered directory whose
\* list holds one card; maxLoops 0 stands for a call without the argument
InitLoad ==
  /\ variant = "hide"
  /\ \E mode \in {"vanish", "disable", "stay", "free"}, n \in 0..MaxGrowth,
        maxLoops \in 0..MaxFreeLoops :
       /\ mode = "free" => (n = 0 /\ maxLoops > 0)
       /\ hostPlan = [mode |-> mode, n |-> n, left |-> n, pending |-> FALSE]
       /\ load = StartLoad(maxLoops)
       /\ LET b == PlanButton(mode, n)
          IN InitFrom([InitState EXCEPT !.dirDom = TRUE,
                                        !.hostList = <<HostPool[1]>>,
                                        !.btnPresent = b.present,
                                        !.btnDisabled = b.disabled])
  /\ InitTasks
  /\ call = NoCall

\* sortCardsByLastSeen() is about to be called on a rendered directory
InitSort ==
  /\ variant = "hide"
  /\ \E sorting \in SortLists, hidden \in SUBSET (1..MaxSortLen) :
       LET list == [i \in DOMAIN sorting |->
                      IF i \in hidden THEN [sorting[i] EXCEPT !.display = "none"]
                      ELSE sorting[i]]
       IN /\ InitFrom([InitState EXCEPT !.dirDom = TRUE, !.hostList = list])
          /\ call = [fn |-> "sortCardsByLastSeen", args |-> list, done |-> FALSE,
                     again |-> FALSE, once |-> <<>>]
  /\ InitTasks
  /\ load = NoLoad /\ hostPlan = NoPlan

NextSort == SortCall \/ SortAgain \/ ReorderTimer

SpecSort == InitSort /\ [][NextSort]_vars

\* buildFiltersFromForm is about to be called, in either variant
InitFilters ==
  /\ variant \in {"replace", "hide"}
  /\ InitFrom(InitState)
  /\ InitTasks
  /\ load = NoLoad /\ hostPlan = NoPlan
  /\ \E form \in FormInputs :
       call = [fn |-> "buildFiltersFromForm", args |-> form, done |-> FALSE,
               result |-> Null]

SpecFilters == InitFilters /\ [][BuildFiltersCall]_vars

\* a state is about to be written to the URL, part_001
InitUrl001 ==
  /\ variant = "hide"
  /\ InitFrom(InitState)
  /\ InitTasks
  /\ load = NoLoad /\ hostPlan = NoPlan
  /\ \E hb \in HbStates, order \in Orders001, direction \in Directions, base \in BaseUrls :
       call = [fn |-> "applyDirectoryParams",
               args |-> [hb |-> hb, sort |-> [order |-> order, direction |-> direction]],
               location |-> base, stage |-> "call", result |-> Null]

SpecUrl001 == InitUrl001 /\ [][ApplyDirectoryParams \/ ReadParams001]_vars

\* a state is about to be written to the URL, part_000
InitUrl000 ==
  /\ variant = "hide"
  /\ InitFrom(InitState)
  /\ InitTasks
  /\ load = NoLoad /\ hostPlan = NoPlan
  /\ \E hb \in HbStates, order \in Orders000, dir \in Directions, base \in BaseUrls :
       call = [fn |-> "applyParams", args |-> [hb |-> hb, order |-> order, dir |-> dir],
               location |-> base, stage |-> "call", result |-> Null]

SpecUrl000 == InitUrl000 /\ [][ApplyParams \/ SyncFormFromUrl]_vars

NextLoad ==
  \/ LoadCall
  \/ LoadWake
  \/ HostLoadsMore
  \/ \E k \in 0..MaxGrowth, present \in BOOLEAN, disabled \in BOOLEAN :
       HostFree(k, present, disabled)

\* the timers of the run fire, and a scripted host answers a click
SpecLoad ==
  /\ InitLoad /\ [][NextLoad]_vars
  /\ WF_vars(LoadCall) /\ WF_vars(LoadWake) /\ WF_vars(HostLoadsMore)


-----------------------------------------------------------------------------
(* Replace variant: what is displayed, what a page change resets *)

\* C1: in the replace variant, whenever the host list section and the
\* injected results container are both in the document, the host list is
\* hidden and the container shown if search mode is active, and the host list
\* is shown and the container hidden if it is not.
C1_ExactlyOneListShown ==
  (variant = "replace" /\ dirDom /\ resInDoc) =>
     IF searchActive THEN secDisplay = "none" /\ resDisplay = ""
                     ELSE secDisplay = "" /\ resDisplay = "none"

\* the per-view state of the replace variant is torn down
ReplaceTornDown ==
  /\ ~searchActive /\ searchFilters = Null /\ searchPage = 1
  /\ ~searchHasMore /\ ~searchLoading
  /\ activeForm = NullForm
  /\ ~loadMoreCaptureHandler /\ ~btnListener
  /\ ~resInDoc
\* the per-view state of the hide variant is torn down
HideTornDown ==
  /\ activeForm = NullForm /\ activeMatchSet = NullSet
  /\ directoryObserver = "null" /\ ~scheduledReapply

\* C2: after a page change to a URL that is not the directory, the per-view
\* state is torn down: in the replace variant searchActive is false,
\* searchFilters null, searchPage 1, searchHasMore and searchLoading false,
\* activeForm null, the interceptor detached and no results container in the
\* document; in the hide variant activeForm and activeMatchSet are null, the
\* observer is disconnected and no reapply timer is pending.
C2_NonDirectoryTearsDown ==
  [][\A url \in Urls :
       ~isDirectory(url) =>
          /\ OnPageChangeReplace(url) => ReplaceTornDown'
          /\ OnPageChangeHide(url) => HideTornDown']_vars

\* C9: the node cached as templateNode is a rendered card, never a loading
\* placeholder or a child without avatar and username.
C9_TemplateIsRenderedCard == templateNode \in {"null", "card"}

\* no next-page request goes out while search mode is inactive or
\* searchFilters is null
NextPageRequestWhileActive ==
  \A i \in DOMAIN nextSleeps :
     (NextPageSleepDone(i) /\ Len(nextReqs') > Len(nextReqs))
        => (searchActive /\ searchFilters # Null)

\* C10: whenever search mode is inactive, searchPage is 1 and searchHasMore
\* is false; and no next-page request is issued while searchActive is false
\* or searchFilters is null.
C10_PaginationOnlyWhileActive ==
  /\ [](~searchActive => (searchPage = 1 /\ ~searchHasMore))
  /\ [][NextPageRequestWhileActive]_vars


-----------------------------------------------------------------------------
(* Both variants: overlapping submissions, failures, the empty-state message *)

\* the response to a first-page request is rendered whatever was submitted
\* since the request went out
FirstPageAlwaysRendered ==
  \A i \in DOMAIN firstReqs, resp \in Responses :
     (FirstPageResponse(i, resp) /\ resp.ok /\ resp.n > 0 /\ resultsSection # "null")
        => /\ resCards' = Append(resCards, [filters |-> firstReqs[i].filters,
                                            page |-> firstReqs[i].page,
                                            n |-> resp.n,
                                            template |-> templateNode])
           /\ searchHasMore' = (resp.n = SearchPerPage)
\* the set a submission of the hide variant fetched becomes activeMatchSet
\* whatever was submitted since
MatchSetAlwaysApplied ==
  \A i \in DOMAIN hideSubmits, ok \in BOOLEAN :
     (MatchingResponse(i, ok) /\ Len(hideSubmits') < Len(hideSubmits))
        => activeMatchSet' = NameSet(fetchMatchingUsernamesStep(hideSubmits[i], ok).set)
\* a submission leaves the requests in flight as they are
SubmitKeepsInFlight ==
  /\ (\E sel \in FormChoices : SubmitReplace(sel))
        => SubSeq(firstReqs', 1, Len(firstReqs)) = firstReqs
  /\ (\E sel \in FormChoices : SubmitHide(sel))
        => SubSeq(hideSubmits', 1, Len(hideSubmits)) = hideSubmits

\* C3: overlapping submissions are neither cancelled nor sequenced: a
\* submission leaves the earlier requests in flight, and the response to a
\* request is applied when it arrives even if a newer filter was submitted
\* since, so the result state can end up that of the older submission.
C3_OverlappingNotSequenced ==
  [][FirstPageAlwaysRendered /\ MatchSetAlwaysApplied /\ SubmitKeepsInFlight]_vars

\* C3, the case: two submissions were in flight, nothing is in flight any
\* more, and the cards in the results container are all of the older filter,
\* none of the filter submitted last
C3_OlderSubmissionWins ==
  /\ variant = "replace"
  /\ firstReqs = <<>> /\ nextReqs = <<>> /\ nextSleeps = <<>>
  /\ searchActive /\ searchFilters = lastSubmit
  /\ resCards # <<>>
  /\ \A k \in DOMAIN resCards : resCards[k].filters # lastSubmit

\* a failed first-page request of the replace variant, with the directory
\* still in the document: nothing in the container, no more pages, the
\* empty-state message shown
FailedFirstPageIsEmpty ==
  \A i \in DOMAIN firstReqs :
     (FirstPageResponse(i, [ok |-> FALSE, n |-> 0]) /\ firstReqs[i].root = "cur")
        => (resCards' = <<>> /\ ~searchHasMore' /\ emptyEl' = "block")
\* a failed request of fetchMatchingUsernames, with the directory still in
\* the document and the form as it was submitted: no card shown, the
\* empty-state message shown
FailedMatchingIsEmpty ==
  \A i \in DOMAIN hideSubmits :
     (/\ MatchingResponse(i, FALSE)
      /\ hideSubmits[i].root = "cur" /\ hideSubmits[i].form = CurForm
      /\ buildFiltersFromForm(formSel) = hideSubmits[i].filters)
        => (VisibleCount(hostList') = 0 /\ emptyEl' = "block")

\* C7: a failing search request is treated as zero matches: in the replace
\* variant a failed first-page fetch leaves the results container empty, sets
\* searchHasMore to false and shows the empty-state message; in the hide
\* variant a failed request for any page of the matching usernames leaves no
\* card shown and the empty-state message visible.
C7_FailureIsZeroMatches ==
  [][FailedFirstPageIsEmpty /\ FailedMatchingIsEmpty]_vars

\* the empty-state message is visible only while a filter is active and no
\* result is displayed
EmptyMessageOnlyForEmptyResult ==
  emptyEl = "block" =>
     IF variant = "replace" THEN searchActive /\ resCards = <<>>
     ELSE ~activeMatchSet.isNull /\ VisibleCount(hostList) = 0
\* a rendered response with zero users shows the message, a rendered
\* response with users hides it
EmptyMessageFollowsResponse ==
  \A i \in DOMAIN firstReqs, resp \in Responses :
     (FirstPageResponse(i, resp) /\ resp.ok /\ firstReqs[i].root = "cur")
        => (emptyEl' = IF resp.n = 0 THEN "block" ELSE "none")

\* C8: after a search response with zero users is rendered the empty-state
\* message is visible, after a later response with users it is hidden, and it
\* is never visible while a result is displayed or no filter is active.
C8_EmptyMessage ==
  /\ [][EmptyMessageFollowsResponse]_vars
  /\ []EmptyMessageOnlyForEmptyResult


-----------------------------------------------------------------------------
(* Hide variant: filtering and the observer *)

\* C4: in the hide variant, while the form stays in the document and the
\* observer is connected, a change the host made to the list is followed by
\* a re-application of filter and sort: as long as applyFiltersBySet has not
\* run on the changed list, the reapply timer is pending or a submission is
\* on its way to reapplyAll.
C4_MutationsReconciled ==
  (/\ variant = "hide" /\ unreconciled
   /\ formCount > 0 /\ activeForm = CurForm /\ directoryObserver = "cur")
     => (scheduledReapply \/ hideSubmits # <<>>)

\* the card is eligible under the last completed submission
EligibleCard(card, set) ==
  set.isNull \/ (card.name # <<>> /\ ToLower(card.name) \in set.names)

\* C5: every re-application the observer triggers applies the filter of the
\* last completed submission: after it a card is shown iff its username is in
\* activeMatchSet, and every card is shown when activeMatchSet is null,
\* whatever the dropdowns of the form were changed to without submitting
\* (stated for the re-applications with no submission in flight).
C5_ReapplyUsesLastSubmission ==
  [][(ReapplyTimer /\ ~isReordering /\ activeForm = CurForm /\ dirDom
        /\ hideSubmits = <<>>)
        => \A i \in DOMAIN hostList' :
              (hostList'[i].display = "") <=> EligibleCard(hostList'[i], activeMatchSet)]_vars

\* a step in which applyFiltersBySet ran on the list
AppliedFilters ==
  /\ dirDom
  /\ \/ ReapplyTimer /\ ~isReordering /\ activeForm = CurForm
     \/ \E sel \in FormChoices :
           SubmitHide(sel) /\ ~buildFiltersFromForm(sel).hasAnyFilter
     \/ \E i \in DOMAIN hideSubmits, ok \in BOOLEAN :
           MatchingResponse(i, ok) /\ Len(hideSubmits') < Len(hideSubmits)

\* the list with every display reset
Undisplayed(list) == [i \in DOMAIN list |-> [list[i] EXCEPT !.display = ""]]
\* the two lists hold the same cards, each as often
SameCards(l1, l2) ==
  /\ Len(l1) = Len(l2)
  /\ \A i \in DOMAIN l1 :
        Cardinality({j \in DOMAIN l1 : Undisplayed(l1)[j] = Undisplayed(l1)[i]})
          = Cardinality({j \in DOMAIN l2 : Undisplayed(l2)[j] = Undisplayed(l1)[i]})

\* C6: after applyFiltersBySet with a filter in the form, a card of the list
\* is displayed iff a username can be extracted from it and its lowercased
\* username is in the allowed set; without filter every card is displayed;
\* the empty-state message is visible iff there is a filter and no card is
\* displayed; and the list holds the cards it held before.
C6_FilterApplication ==
  [][AppliedFilters =>
       LET form == IF activeForm'.ref = "cur" THEN formSel' ELSE activeForm'.sel
           hasAnyFilter == buildFiltersFromForm(form).hasAnyFilter
       IN /\ \A i \in DOMAIN hostList' :
                (hostList'[i].display = "") <=>
                   \/ ~hasAnyFilter
                   \/ /\ hostList'[i].name # <<>>
                      /\ ~activeMatchSet'.isNull
                      /\ ToLower(hostList'[i].name) \in activeMatchSet'.names
          /\ (emptyEl' = "block") <=> (hasAnyFilter /\ VisibleCount(hostList') = 0)
          /\ SameCards(hostList, hostList')]_vars

\* C6, the case: a filter is applied, the card of user "A" is displayed for
\* "a" in the set, and another card is hidden
C6_MatchShownOthersHidden ==
  /\ variant = "hide" /\ ~activeMatchSet.isNull /\ ~unreconciled
  /\ buildFiltersFromForm(formSel).hasAnyFilter
  /\ \E i, j \in DOMAIN hostList :
        /\ hostList[i].name = <<"A">> /\ hostList[i].display = ""
        /\ <<"a">> \in activeMatchSet.names
        /\ hostList[j].display = "none"

-----------------------------------------------------------------------------
(* C11 *)

\* fetchUsersPage's hasMore as renderFirstPage and loadNextPage leave it in
\* searchHasMore: a response that is applied sets it to "the page held
\* SearchPerPage users", a failed request sets it to FALSE
HasMoreAfter(s, resp) ==
  /\ (resp.ok /\ ~appendThrows(s, resp.n)) => (searchHasMore' = (resp.n = SearchPerPage))
  /\ ~resp.ok => ~searchHasMore'

\* C11: after every successfully applied page response (first page or a
\* later page) searchHasMore is true iff the page held exactly SearchPerPage
\* (30) users; after a failed page request searchHasMore is false.
C11_HasMoreFlag ==
  [][ /\ \A i \in DOMAIN firstReqs : \A resp \in Responses :
           FirstPageResponse(i, resp) => HasMoreAfter(St, resp)
      /\ \A i \in DOMAIN nextReqs : \A resp \in Responses :
           NextPageResponse(i, resp) => HasMoreAfter(St, resp)
      /\ \A i \in DOMAIN nextSleeps :
           (NextPageSleepDone(i) /\ loadNextPageFetchThrows(St)) => ~searchHasMore'
    ]_vars

\* C11 witness: a full second page was appended and more is expected
C11_FullLaterPage ==
  /\ variant = "replace" /\ searchActive /\ searchHasMore /\ searchPage = 2
  /\ \E b \in DOMAIN resCards : resCards[b].page = 2 /\ resCards[b].n = SearchPerPage

-----------------------------------------------------------------------------
(* C12, C13 *)

\* C12: against a host list that stops growing after n load-more clicks,
\* ensureAllUsersLoaded ends within n clicks (one more where the button is
\* still present and enabled, which is how a run finds the list ended) plus
\* the settle window, whether the button then disappears, is disabled or
\* stays present and enabled: once the list has stopped growing the run is
\* over when no growth was seen for settleMs.
C12_StopsAfterGrowthEnds ==
  hostPlan.mode \in {"vanish", "disable", "stay"} =>
    /\ load.loops <= hostPlan.n + 1
    /\ (hostPlan.left = 0 /\ ~hostPlan.pending /\ load.sinceGrowth >= SettleMs)
         => load.pc = "done"

\* C13: ensureAllUsersLoaded never clicks the load-more button more than
\* maxLoops times (200 by default) in one run, whatever the host does, and
\* the run ends whatever the host does.
C13_BoundedClicksTerminate ==
  /\ [](load.loops <= load.max)
  /\ <>(load.pc = "done")

-----------------------------------------------------------------------------
(* C14 *)

Stamps(list) == [i \in DOMAIN list |-> list[i].ts]
\* the place a card of the sorted list had in the list before the call
PlaceBefore(card) == CHOOSE i \in DOMAIN call.args : call.args[i] = card

\* C14: after sortCardsByLastSeen the list holds the cards it held, every
\* card with a timestamp before every card without one, timestamped cards
\* most recent first, and cards with equal timestamps (or both without one)
\* in their original order; [T-1h, none, T-10d, T-1min] becomes
\* [T-1min, T-1h, T-10d, none].
C14_SortedByLastSeen ==
  (call.fn = "sortCardsByLastSeen" /\ call.done) =>
    /\ Len(hostList) = Len(call.args)
    /\ \A i \in DOMAIN call.args : \E j \in DOMAIN hostList : hostList[j] = call.args[i]
    /\ \A i, j \in DOMAIN hostList :
         i < j =>
           /\ hostList[i].ts = 0 => hostList[j].ts = 0
           /\ hostList[j].ts # 0 => hostList[i].ts >= hostList[j].ts
           /\ hostList[i].ts = hostList[j].ts
                => PlaceBefore(hostList[i]) < PlaceBefore(hostList[j])
    /\ Stamps(call.args) = <<2, 0, 1, 3>> => Stamps(hostList) = <<3, 2, 1, 0>>

\* C14 witness: the list of the example, sorted
C14_ExampleSorted ==
  /\ call.fn = "sortCardsByLastSeen" /\ call.done
  /\ Stamps(call.args) = <<2, 0, 1, 3>>
  /\ Stamps(hostList) = <<3, 2, 1, 0>>

-----------------------------------------------------------------------------
(* C15 *)

Blanks(n) == [i \in 1..n |-> " "]
\* t is str without the blanks at its ends
IsTrimOf(t, str) ==
  /\ t = <<>> \/ (t[1] # " " /\ t[Len(t)] # " ")
  /\ \E a, b \in 0..Len(str) : str = Blanks(a) \o t \o Blanks(b)
\* t is the value of field v: the empty string for a missing field
IsValueOf(t, v) == IF v = Missing THEN t = <<>> ELSE IsTrimOf(t, v)
HasText(v) == v # Missing /\ \E i \in DOMAIN v : v[i] # " "

\* C15: for every combination of the four form fields, buildFiltersFromForm
\* returns each field trimmed, a missing field as the empty string, and
\* hasAnyFilter true iff at least one field is non-empty after trimming.
C15_FiltersFromForm ==
  (call.fn = "buildFiltersFromForm" /\ call.done) =>
    /\ IsValueOf(call.result.gender, call.args.gender)
    /\ IsValueOf(call.result.country, call.args.country)
    /\ IsValueOf(call.result.listen, call.args.listen)
    /\ IsValueOf(call.result.share, call.args.share)
    /\ call.result.hasAnyFilter
         <=> (HasText(call.args.gender) \/ HasText(call.args.country)
              \/ HasText(call.args.listen) \/ HasText(call.args.share))

\* C15 witness: a form with a missing field, a blank one and one value
\* between blanks; the value alone makes hasAnyFilter true
C15_OnlyListenSet ==
  /\ call.fn = "buildFiltersFromForm" /\ call.done
  /\ call.args = [gender |-> Missing, country |-> <<" ">>,
                  listen |-> <<" ", "f", " ">>, share |-> <<>>]
  /\ call.result = [gender |-> <<>>, country |-> <<>>, listen |-> <<"f">>,
                    share |-> <<>>, hasAnyFilter |-> TRUE]

-----------------------------------------------------------------------------
(* C16, C17 *)

\* C16 (part_001): for every filter state, order and direction, and from
\* any base URL, readHbParams and readSortParams on the URL that
\* buildUrlWithParams produced give the same four filter values (empty for an
\* absent key), the same order (last_seen when none was given) and the same
\* direction.
C16_RoundTrip001 ==
  (call.fn = "applyDirectoryParams" /\ call.stage = "read") =>
    /\ \A i \in DOMAIN HB_KEYS :
         OrEmpty(call.result.hb[HB_KEYS[i]]) = call.args.hb[HB_KEYS[i]]
    /\ call.result.sort.order =
         IF OrEmpty(call.args.sort.order) = <<>> THEN <<"last_seen">>
         ELSE call.args.sort.order
    /\ call.result.sort.direction = call.args.sort.direction

\* C16 witness: a value of reserved characters, written over a URL that held
\* the key twice and an asc, read back with direction desc
C16_ReservedOverOldParams ==
  /\ call.fn = "applyDirectoryParams" /\ call.stage = "read"
  /\ call.args.hb.hb_gender = <<"%", "2", "6", "&", "=", "+">>
  /\ call.args.hb.hb_listen = <<"a", " ", "b">>
  /\ call.args.sort = [order |-> <<>>, direction |-> "desc"]
  /\ call.result.hb.hb_gender = <<"%", "2", "6", "&", "=", "+">>
  /\ call.result.hb.hb_listen = <<"a", " ", "b">>
  /\ call.result.sort = [order |-> <<"last_seen">>, direction |-> "desc"]
  /\ SpGet(ParseQuery(UrlSearch(call.location)), <<"page">>) = <<"2">>

-----------------------------------------------------------------------------
(* C18 *)

\* C18: when the reapply timer fires and the filter form is no longer in the
\* document, no card is filtered or moved, activeForm and activeMatchSet
\* become null, the observer is disconnected and no reapply timer is pending.
C18_DetachedFormCleansUp ==
  [][ (ReapplyTimer /\ variant = "hide" /\ activeForm.ref = "stale") =>
        /\ hostList' = hostList /\ emptyEl' = emptyEl
        /\ activeForm' = NullForm /\ activeMatchSet' = NullSet
        /\ directoryObserver' = "null" /\ ~scheduledReapply'
    ]_vars

-----------------------------------------------------------------------------
(* C19 *)

\* C19: when the options request fails, fetchOptions resolves with four
\* empty option lists: the callbacks waiting on it run, the form is injected
\* under the controls that are still in the document, and every dropdown
\* offers only the empty-valued "Do not consider".
C19_FailedOptionsStillInject ==
  [][ OptionsResponse(FALSE) =>
        /\ options' = "empty" /\ optWaiters' = <<>>
        /\ Selectable(options') = {SelNone}
        /\ (\E i \in DOMAIN optWaiters : optWaiters[i].root = "cur")
             => (formCount' > 0 /\ formSel' = SelNone /\ activeForm' = CurForm)
    ]_vars

\* C19 witness: the request has failed and the form is in the document
C19_FormAfterFailure ==
  options = "empty" /\ formCount > 0 /\ activeForm = CurForm /\ formSel = SelNone

-----------------------------------------------------------------------------
(* fetchOptions, called on its own any number of times (the main file and  *)
(* part_000 hold the same code, part_001 caches the response as it came).  *)
(* A JavaScript object is the set of its <<key, value>> pairs;             *)
(* optionsCache is <<>> for null and <<object>> otherwise; a promise is    *)
(* the number of the request that made it, 0 for none and for              *)
(* Promise.resolve.                                                        *)

MaxCalls == 4

OptionKeys == {"gender", "country", "listen", "share"}
EmptyOptions == {<<k, <<>>>> : k \in OptionKeys}

Has(obj, k) == \E p \in obj : p[1] = k
\* obj[k] || []
ListOr(obj, k) == IF Has(obj, k) THEN (CHOOSE p \in obj : p[1] = k)[2] ELSE <<>>

\* what /user-search/options.json may answer: an object with the four lists,
\* with one of them, with none; null; an error
OptionBodies ==
  { {<<"gender", <<"f">>>>, <<"country", <<"nl">>>>, <<"listen", <<"jazz">>>>,
     <<"share", <<"yes">>>>},
    {<<"gender", <<"f">>>>},
    {} }
Answers ==
  {[kind |-> "error", body |-> {}], [kind |-> "null", body |-> {}]}
    \cup {[kind |-> "object", body |-> b] : b \in OptionBodies}
Sources == {"main", "part_000", "part_001"}

\* the value the then or the catch stores in optionsCache and returns
OptionsOf(src, answer) ==
  IF answer.kind = "error" THEN EmptyOptions
  ELSE IF src = "part_001"
         THEN (IF answer.kind = "null" THEN {} ELSE answer.body)
  ELSE IF answer.kind = "null" THEN EmptyOptions  \* result.gender throws: the catch runs
  ELSE {<<k, ListOr(answer.body, k)>> : k \in OptionKeys}

\* a request is issued
issueRequest(c) ==
  LET id == c.requests + 1 IN
  [c EXCEPT !.requests = id, !.optionsPromise = id, !.pending = @ \cup {id},
            !.calls = Append(@, [promise |-> id, value |-> <<>>])]

\* fetchOptions, were it not to look at optionsPromise
fetchOptionsUnshared(c) ==
  IF c.optionsCache # <<>>
    THEN [c EXCEPT !.calls = Append(@, [promise |-> 0, value |-> c.optionsCache])]
  ELSE issueRequest(c)

\* fetchOptions(): the promise the call returns is appended to calls
fetchOptions(c) ==
  IF c.optionsCache # <<>>
    THEN [c EXCEPT !.calls = Append(@, [promise |-> 0, value |-> c.optionsCache])]
  ELSE IF c.optionsPromise # 0
    THEN [c EXCEPT !.calls = Append(@, [promise |-> c.optionsPromise, value |-> <<>>])]
  ELSE issueRequest(c)

\* the then or the catch of request id runs: the cache is set and the
\* promise of the request fulfils with it
settleOptions(c, id, answer) ==
  LET v == OptionsOf(c.src, answer) IN
  [c EXCEPT !.optionsCache = <<v>>, !.pending = @ \ {id},
            !.answers = Append(@, answer.kind),
            !.calls = [i \in DOMAIN c.calls |->
                         IF c.calls[i].promise = id
                           THEN [promise |-> id, value |-> <<v>>]
                           ELSE c.calls[i]]]

\* some code calls fetchOptions()
FetchOptionsCall ==
  /\ call.fn = "fetchOptions"
  /\ Len(call.calls) < MaxCalls
  /\ call' = fetchOptions(call)
  /\ UNCHANGED <<variant, domVars, modVars, taskVars, countVars, load, hostPlan>>

\* a request in flight is answered
OptionsAnswer(answer) ==
  /\ call.fn = "fetchOptions"
  /\ \E id \in call.pending : call' = settleOptions(call, id, answer)
  /\ UNCHANGED <<variant, domVars, modVars, taskVars, countVars, load, hostPlan>>

InitOptions ==
  /\ variant = "replace"
  /\ InitFrom(InitState) /\ InitTasks
  /\ load = NoLoad /\ hostPlan = NoPlan
  /\ \E src \in Sources :
       call = [fn |-> "fetchOptions", src |-> src, optionsCache |-> <<>>,
               optionsPromise |-> 0, requests |-> 0, pending |-> {},
               answers |-> <<>>, calls |-> <<>>]

NextOptions == FetchOptionsCall \/ \E answer \in Answers : OptionsAnswer(answer)

SpecOptions == InitOptions /\ [][NextOptions]_vars

-----------------------------------------------------------------------------
(* C20 *)

\* C20: over any sequence and interleaving of fetchOptions calls (calls while
\* the request is in flight and calls after it failed included) at most one
\* request to /user-search/options.json is issued, every call resolves once
\* the request is answered, and all calls resolve to the same options value
C20_OneRequestOneValue ==
  call.fn = "fetchOptions" =>
    /\ call.requests <= 1
    /\ \A i, j \in DOMAIN call.calls :
         (call.calls[i].value # <<>> /\ call.calls[j].value # <<>>)
           => call.calls[i].value = call.calls[j].value
    /\ call.answers # <<>> => \A i \in DOMAIN call.calls : call.calls[i].value # <<>>

\* witness: the request failed; a call made while it was in flight and a
\* call made after the failure have resolved, with one request issued
C20_CallsAroundFailure ==
  /\ call.fn = "fetchOptions" /\ call.answers = <<"error">>
  /\ call.requests = 1 /\ Len(call.calls) >= 3
  /\ call.calls[2].promise = 1 /\ call.calls[3].promise = 0
  /\ call.calls[2].value = <<EmptyOptions>> /\ call.calls[3].value = <<EmptyOptions>>

-----------------------------------------------------------------------------
(* Replace variant: buildCardFromUser on a clone of the template, on its   *)
(* own.  A card is the sequence of its elements in document order, element *)
(* 1 being the card; an element holds its own text (written before its     *)
(* children), the index of its parent, and alive = FALSE once it has been  *)
(* removed from the card.                                                  *)

NoHref == [kind |-> "none", user |-> <<>>]
El(tag, cls, parent, text) ==
  [tag |-> tag, cls |-> cls, parent |-> parent, text |-> text, alive |-> TRUE,
   href |-> NoHref, userCard |-> Missing, dataUsername |-> Missing,
   time |-> 0, width |-> 0, src |-> [tpl |-> Missing, size |-> 0], userId |-> 0]

\* element i lies below element a
RECURSIVE IsUnder(_, _, _)
IsUnder(card, i, a) ==
  card[i].parent # 0 /\ (card[i].parent = a \/ IsUnder(card, card[i].parent, a))

\* card.querySelectorAll("*")
InCard(card) == {i \in DOMAIN card : i # 1 /\ card[i].alive}
HasElementChildren(card, i) ==
  \E j \in DOMAIN card : card[j].alive /\ card[j].parent = i
FirstOf(S) == IF S = {} THEN 0 ELSE CHOOSE i \in S : \A j \in S : i <= j

\* el.textContent: the text of the element and of its descendants
RECURSIVE TextFrom(_, _, _)
TextFrom(card, i, j) ==
  IF j > Len(card) THEN <<>>
  ELSE (IF card[j].alive /\ (j = i \/ IsUnder(card, j, i)) THEN card[j].text ELSE <<>>)
         \o TextFrom(card, i, j + 1)
textContent(card, i) == TextFrom(card, i, i)

\* el.textContent = str: the children of the element are removed
setTextContent(card, i, str) ==
  IF i = 0 \/ ~card[i].alive THEN card
  ELSE [j \in DOMAIN card |->
          IF j = i THEN [card[j] EXCEPT !.text = str]
          ELSE IF IsUnder(card, j, i) THEN [card[j] EXCEPT !.alive = FALSE]
          ELSE card[j]]

\* (el.textContent || "").trim().startsWith("@")
hadAt(card, i) ==
  LET t == Trim(textContent(card, i)) IN t # <<>> /\ Head(t) = "@"
AtName(card, i, username) == IF hadAt(card, i) THEN <<"@">> \o username ELSE username

\* the primary username link of updateLinks
NameLink(card) ==
  LET as == {i \in InCard(card) : card[i].tag = "a"}
      s1 == {i \in as : \E p \in DOMAIN card :
                          "user-card-name" \in card[p].cls /\ IsUnder(card, i, p)}
      s2 == {i \in as : card[i].href.kind = "u"}
      s3 == {i \in as : card[i].href.kind = "users"}
      s4 == {i \in as : "user-link" \in card[i].cls}
  IN  IF s1 # {} THEN FirstOf(s1) ELSE IF s2 # {} THEN FirstOf(s2)
      ELSE IF s3 # {} THEN FirstOf(s3) ELSE FirstOf(s4)

\* usernameEls.forEach over the list as it was when queried
RECURSIVE WriteUsernames(_, _, _)
WriteUsernames(card, els, username) ==
  IF els = {} THEN card
  ELSE LET i == FirstOf(els) IN
       WriteUsernames(setTextContent(card, i, AtName(card, i, username)),
                      els \ {i}, username)

updateLinks(card, username) ==
  IF username = <<>> THEN card
  ELSE
    LET c1 == [i \in DOMAIN card |->
                 IF i = 1 THEN [card[i] EXCEPT !.dataUsername = username]
                 ELSE IF card[i].tag = "a"
                   THEN [card[i] EXCEPT
                           !.userCard = IF @ = Missing THEN @ ELSE username,
                           !.href = IF @.kind \in {"u", "users"}
                                      THEN [@ EXCEPT !.user = Encode(username)]
                                      ELSE @]
                 ELSE card[i]]
        nameLink == NameLink(c1)
        c2 == IF nameLink = 0 THEN c1
              ELSE setTextContent(c1, nameLink, AtName(c1, nameLink, username))
    IN  WriteUsernames(c2, {i \in InCard(c2) : "username" \in c2[i].cls}, username)

\* the size of an avatar: its width, else 45 (the templates give no height)
AvatarSize(el) == IF el.width > 0 THEN el.width ELSE 45

updateAvatar(card, avatarTemplate) ==
  IF avatarTemplate = Missing THEN card
  ELSE [i \in DOMAIN card |->
          IF i # 1 /\ card[i].alive /\ card[i].tag = "img" /\ "avatar" \in card[i].cls
            THEN [card[i] EXCEPT !.src = [tpl |-> avatarTemplate, size |-> AvatarSize(card[i])]]
            ELSE card[i]]

\* card.querySelector(".a") || card.querySelector(".b") || card.querySelector(".c")
FirstWithClass(card, classes) ==
  IF classes = <<>> THEN 0
  ELSE LET s == {i \in InCard(card) : Head(classes) \in card[i].cls} IN
       IF s # {} THEN FirstOf(s) ELSE
       IF Len(classes) = 1 THEN 0 ELSE
       LET t == {i \in InCard(card) : classes[2] \in card[i].cls} IN
       IF t # {} THEN FirstOf(t) ELSE
       IF Len(classes) = 2 THEN 0 ELSE
       FirstOf({i \in InCard(card) : classes[3] \in card[i].cls})

updateNameAndTitle(card, user) ==
  LET c1 == setTextContent(card, FirstWithClass(card, <<"name", "full-name">>), user.name)
  IN  setTextContent(c1, FirstWithClass(c1, <<"user-title", "title", "user-card-title">>),
                     user.title)

\* /seen/i.test(str)
RECURSIVE HasSeen(_)
HasSeen(str) ==
  Len(str) >= 4 /\ (ToLower(SubSeq(str, 1, 4)) = <<"s", "e", "e", "n">> \/ HasSeen(Tail(str)))
\* /\bseen\b/i.test(str): the characters written in the templates other than
\* these are word characters
NonWord == {" ", "@", ":", "."}
HasSeenWord(str) ==
  \E p \in 1..(Len(str) - 3) :
    /\ ToLower(SubSeq(str, p, p + 3)) = <<"s", "e", "e", "n">>
    /\ (p = 1 \/ str[p - 1] \in NonWord)
    /\ (p + 3 = Len(str) \/ str[p + 4] \in NonWord)

\* relativeAgo(tsMs), diffMs being Date.now() - tsMs; a number and a unit are
\* written as one element each
relativeAgo(diffMs) ==
  LET sec == diffMs \div 1000
      min == sec \div 60
      hour == min \div 60
      day == hour \div 24
      week == day \div 7
      month == day \div 30
      year == day \div 365
  IN  IF diffMs < 30 * 1000 THEN <<"just now">>
      ELSE IF sec < 60 THEN <<ToString(sec), " ", "secs ago">>
      ELSE IF min < 60 THEN <<ToString(min), " ", "mins ago">>
      ELSE IF hour < 24 THEN <<ToString(hour), " ", "hours ago">>
      ELSE IF day < 7 THEN <<ToString(day), " ", "days ago">>
      ELSE IF week < 5 THEN <<ToString(week), " ", "weeks ago">>
      ELSE IF month < 12 THEN <<ToString(month), " ", "months ago">>
      ELSE <<ToString(year), " ", "years ago">>

\* candidates.sort(by text length)[0]: the first of the shortest candidates
SeenCandidate(card) ==
  LET cand == {i \in InCard(card) :
                 LET t == Trim(textContent(card, i)) IN
                 t # <<>> /\ HasSeenWord(t) /\ Len(t) < 80}
      short == {i \in cand : \A j \in cand :
                  Len(textContent(card, i)) <= Len(textContent(card, j))}
  IN  FirstOf(short)

\* user.lastSeen is Date.parse(user.last_seen_at), 0 when there is none
updateSeen(card, user) ==
  IF user.lastSeen = 0 THEN card
  ELSE
    LET c1 == [i \in DOMAIN card |->
                 IF i # 1 /\ card[i].alive /\ (card[i].time # 0 \/ card[i].tag = "time")
                    /\ HasSeen(textContent(card, card[i].parent))
                   THEN [card[i] EXCEPT !.time = user.lastSeen]
                   ELSE card[i]]
    IN  setTextContent(c1, SeenCandidate(c1),
                       <<"S", "e", "e", "n", " ">> \o relativeAgo(user.diffMs))

\* the end of buildCardFromUser: data-user-id
setUserId(card, user) ==
  IF user.id # 0 /\ card[1].userId # 0
    THEN [card EXCEPT ![1].userId = user.id] ELSE card

\* Templates: a card of the shape buildFallbackCard builds, with a Seen line
\* holding a time element; a card of leaves only; a card whose Seen text is
\* the only child of its line
FallbackShaped ==
  << [El("div", {"user-card"}, 0, <<>>) EXCEPT !.userId = 7],
     El("div", {"user-card-name"}, 1, <<>>),
     [El("a", {}, 2, <<>>) EXCEPT !.href = [kind |-> "u", user |-> <<"b", "o">>],
                                  !.userCard = <<"b", "o">>],
     [El("img", {"avatar"}, 3, <<>>) EXCEPT !.width = 45],
     El("span", {"username"}, 3, <<"b", "o">>),
     El("div", {"name"}, 2, <<"B", "o">>),
     El("div", {"user-title"}, 2, <<"d", "j">>),
     El("div", {"seen"}, 1, <<"S", "e", "e", "n", " ">>),
     [El("span", {"relative-date"}, 8, <<"2", "h">>) EXCEPT !.time = 1] >>
LeavesOnly ==
  << El("div", {"user-info"}, 0, <<>>),
     [El("a", {"user-link"}, 1, <<" ", "@", "b", "o">>) EXCEPT
        !.href = [kind |-> "users", user |-> <<"b", "o">>]],
     El("span", {"full-name"}, 1, <<"B", "o">>),
     El("span", {"title"}, 1, <<>>),
     El("span", {"unseen"}, 1, <<"u", "n", "s", "e", "e", "n">>),
     [El("time", {}, 1, <<"s", "e", "e", "n", ":", " ", "2", "h">>) EXCEPT !.time = 1] >>
WrappedSeen ==
  << El("div", {"user-info"}, 0, <<>>),
     [El("a", {}, 1, <<"b", "o">>) EXCEPT !.href = [kind |-> "other", user |-> <<>>]],
     El("div", {"stat"}, 1, <<>>),
     El("span", {}, 3, <<"S", "e", "e", "n", " ", "2", "h">>) >>
Templates == {FallbackShaped, LeavesOnly, WrappedSeen}

\* the users of a search response
CardUsers ==
  [username : {<<>>, <<"a", "l">>}, name : {<<>>, <<"A", "l">>}, title : {<<>>, <<"m", "c">>},
   avatar : {Missing, <<"/", "a", "v">>}, lastSeen : {0, 5}, diffMs : {10000, 7200000},
   id : {0, 9}]

\* buildCardFromUser(user), one call of it after the other
UpdateLinksCall ==
  /\ call.fn = "buildCardFromUser" /\ call.stage = "cloned"
  /\ call' = [call EXCEPT !.stage = "links",
                          !.card = updateLinks(call.card, call.user.username)]
  /\ UNCHANGED <<variant, domVars, modVars, taskVars, countVars, load, hostPlan>>

UpdateAvatarCall ==
  /\ call.fn = "buildCardFromUser" /\ call.stage = "links"
  /\ call' = [call EXCEPT !.stage = "avatar",
                          !.card = updateAvatar(call.card, call.user.avatar)]
  /\ UNCHANGED <<variant, domVars, modVars, taskVars, countVars, load, hostPlan>>

UpdateNameAndTitleCall ==
  /\ call.fn = "buildCardFromUser" /\ call.stage = "avatar"
  /\ call' = [call EXCEPT !.stage = "name",
                          !.card = updateNameAndTitle(call.card, call.user)]
  /\ UNCHANGED <<variant, domVars, modVars, taskVars, countVars, load, hostPlan>>

UpdateSeenCall ==
  /\ call.fn = "buildCardFromUser" /\ call.stage = "name"
  /\ call' = [call EXCEPT !.stage = "built",
                          !.card = setUserId(updateSeen(call.card, call.user), call.user)]
  /\ UNCHANGED <<variant, domVars, modVars, taskVars, countVars, load, hostPlan>>

\* templateNode.cloneNode(true) has been made for a user
InitCard ==
  /\ variant = "replace"
  /\ InitFrom(InitState) /\ InitTasks
  /\ load = NoLoad /\ hostPlan = NoPlan
  /\ \E tpl \in Templates, user \in CardUsers :
       call = [fn |-> "buildCardFromUser", template |-> tpl, card |-> tpl,
               user |-> user, stage |-> "cloned"]

NextBuildCard == UpdateLinksCall \/ UpdateAvatarCall \/ UpdateNameAndTitleCall \/ UpdateSeenCall

SpecCard == InitCard /\ [][NextBuildCard]_vars

-----------------------------------------------------------------------------
(* C21 *)

\* C21: synthesizing a card from the template never replaces the whole text
\* of an element that has element children: every element of the template
\* (an avatar image inside the username link, say) is still in the card
C21_NestedMarkupSurvives ==
  call.fn = "buildCardFromUser" => \A i \in DOMAIN call.card : call.card[i].alive

-----------------------------------------------------------------------------
(* C22 *)

\* C22: when injectFilters runs and the directory root or its controls are
\* not found, the injection is aborted: no form is inserted, no options
\* request is issued, and neither the document nor the module state changes
C22_MissingAnchorAborts ==
  [][(injectTimers > 0 /\ injectTimers' = injectTimers - 1 /\ ~dirDom)
       => (/\ formCount' = 0
           /\ options' = options
           /\ UNCHANGED <<domVars, modVars, optWaiters, replaceTasks, hideTasks>>)]_vars

\* witness: a directory page change has set the injection timer, no options
\* were requested yet, and the directory is not in the document when it fires
C22_TimerWithoutDirectory ==
  injectTimers > 0 /\ ~dirDom /\ options = "none" /\ nNav > 0

-----------------------------------------------------------------------------
(* C23 *)

\* what a page response must leave alone in a later page view
NoEffectOnView ==
  /\ resInDoc' => resCards' = resCards
  /\ searchHasMore' = searchHasMore /\ searchPage' = searchPage
  /\ btnDisplay' = btnDisplay /\ btnDisabled' = btnDisabled
  /\ searchActive' = searchActive

\* C23: a search request still in flight when the page changes is not
\* aborted, and its late completion has no effect on the later page view: no
\* cards are put into the results container, searchHasMore, searchPage and
\* the load-more button stay as they are, search mode is not entered
C23_LateResponseNoEffect ==
  [][ /\ \A i \in DOMAIN firstReqs : \A resp \in Responses :
           (FirstPageResponse(i, resp) /\ firstReqs[i].view < nNav) => NoEffectOnView
      /\ \A i \in DOMAIN nextReqs : \A resp \in Responses :
           (NextPageResponse(i, resp) /\ nextReqs[i].view < nNav) => NoEffectOnView
    ]_vars

-----------------------------------------------------------------------------
(* Hide variant: the page is left alone.  From some moment on (call.fn =    *)
(* "quiet") the host, the user and the network do nothing more, and only    *)
(* the timers the module has set run.                                       *)

Quiet == [fn |-> "quiet"]

\* the last move of the host, the user or the network has been made
GoQuiet ==
  /\ variant = "hide"
  /\ call = NoCall
  /\ call' = Quiet
  /\ UNCHANGED <<variant, domVars, modVars, taskVars, countVars, load, hostPlan>>

\* the timers of the module: setTimeout(injectFilters, 0), the two
\* setTimeout(..., 0) of the sorting and the 120 ms timer of scheduleReapply
NextTimers == InjectFiltersHide \/ SortTimer \/ ReorderTimer \/ ReapplyTimer

NextSettle ==
  \/ call = NoCall /\ (NextHide \/ GoQuiet)
  \/ call = Quiet /\ NextTimers

SpecSettle == InitHide /\ [][NextSettle]_vars

-----------------------------------------------------------------------------
(* C24 *)

\* no timer of the module is pending and the re-entrancy flag is down
Settled ==
  /\ ~scheduledReapply /\ ~isReordering
  /\ reorderTimers = 0 /\ sortTimers = 0 /\ injectTimers = 0

\* the work the pending timers can still cause: an injection sets the sort
\* timer and may have the observer schedule a re-application; a
\* re-application that appends the empty-state element is followed by one
\* more; a sort sets the timer that lowers isReordering
PendingWork ==
  8 * injectTimers + 2 * sortTimers + reorderTimers
    + (IF scheduledReapply THEN (IF emptyEl = "absent" THEN 4 ELSE 2) ELSE 0)

\* C24: the changes the script makes to the directory when it re-applies
\* (reordering the cards, appending the empty-state element) do not keep
\* re-applications going: once the host, the user and the network make no
\* further move, every timer of the module that fires leaves less work
\* pending than there was, so that after finitely many of them the system is
\* at rest with no reapply timer pending and isReordering false
C24_ReconciliationSettles ==
  /\ [][call = Quiet => PendingWork' < PendingWork]_vars
  /\ [](PendingWork = 0 => Settled)

\* witness: at rest after the script itself reordered the cards and appended
\* the empty-state element
C24_AtRestAfterOwnChanges ==
  /\ call = Quiet /\ Settled
  /\ emptyEl # "absent" /\ Len(hostList) > 1
  /\ [i \in DOMAIN hostList |-> hostList[i].name]
       # [i \in DOMAIN hostList |-> HostPool[i].name]

-----------------------------------------------------------------------------
(* C25 *)

-----------------------------------------------------------------------------
(* Hide variant: fetchMatchingUsernames, called on its own against a server *)
(* that holds some pages of users and serves one more page (full for a      *)
(* server without end, empty otherwise) beyond them.                        *)

FullPage(names) == [count |-> PerPage, names |-> names]
ShortPage(n, names) == [count |-> n, names |-> names]
Servers ==
  { [pages |-> <<>>, beyond |-> ShortPage(0, {})],
    [pages |-> <<ShortPage(2, {<<"a">>, <<"B">>})>>, beyond |-> ShortPage(0, {})],
    [pages |-> <<FullPage({<<"a">>, <<"B">>}), ShortPage(1, {})>>,
     beyond |-> ShortPage(0, {})],
    [pages |-> <<FullPage({<<"A">>}), FullPage({<<"a">>, <<"c">>}), ShortPage(0, {}),
                 FullPage({<<"b">>})>>,
     beyond |-> ShortPage(0, {})],
    [pages |-> <<FullPage({<<"C">>})>>, beyond |-> FullPage({<<"a">>})] }
PageOf(server, page) ==
  IF page \in DOMAIN server.pages THEN server.pages[page] ELSE server.beyond

\* the filters fetchMatchingUsernames is called with
MatchFilters ==
  {Null} \cup {buildFiltersFromForm(sel) :
                 sel \in {[gender |-> g, country |-> <<>>, listen |-> l, share |-> <<>>] :
                            g \in {<<>>, <<"f">>}, l \in {<<>>, <<" ">>, <<"x">>}}}

\* fetchMatchingUsernames(filters) up to its first await or its return
MatchCall ==
  /\ call.fn = "fetchMatchingUsernames" /\ call.pc = "start"
  /\ call' = IF call.filters = Null \/ ~call.filters.hasAnyFilter
               THEN [call EXCEPT !.pc = "done", !.returned = "null"]
               ELSE [call EXCEPT !.pc = "fetching", !.asked = <<1>>]
  /\ UNCHANGED <<variant, domVars, modVars, taskVars, countVars, load, hostPlan>>

\* the request for page call.page is answered or fails
MatchResponse(ok) ==
  /\ call.fn = "fetchMatchingUsernames" /\ call.pc = "fetching"
  /\ LET r == matchingStep(call, ok, PageOf(call.server, call.page))
     IN call' = [call EXCEPT !.set = r.set, !.page = r.page,
                             !.failed = ~ok,
                             !.pc = IF r.done THEN "done" ELSE "fetching",
                             !.returned = IF r.done THEN "set" ELSE @,
                             !.asked = IF r.done THEN @ ELSE Append(@, r.page)]
  /\ UNCHANGED <<variant, domVars, modVars, taskVars, countVars, load, hostPlan>>

InitMatch ==
  /\ variant = "hide"
  /\ InitFrom(InitState) /\ InitTasks
  /\ load = NoLoad /\ hostPlan = NoPlan
  /\ \E filters \in MatchFilters, server \in Servers :
       call = [fn |-> "fetchMatchingUsernames", filters |-> filters, server |-> server,
               pc |-> "start", page |-> 1, set |-> {}, asked |-> <<>>,
               failed |-> FALSE, returned |-> "none"]

NextMatch == MatchCall \/ \E ok \in BOOLEAN : MatchResponse(ok)

SpecMatch == InitMatch /\ [][NextMatch]_vars

-----------------------------------------------------------------------------
(* C26 *)

\* the lowercased usernames of the users on the first k pages of a server
NamesOnPages(server, k) ==
  UNION {{ToLower(u) : u \in PageOf(server, p).names} : p \in 1..k}

\* C26: fetchMatchingUsernames returns null iff no filter is set; otherwise
\* it requests the pages 1, 2, 3, ... in order, goes on only after a page of
\* PerPage (100) users, stops after the first page holding fewer, issues at
\* most SafetyLimit (300) requests, and when no request failed the set it
\* returns is the lowercased usernames of the users on the pages it fetched
C26_MatchingUsernames ==
  call.fn = "fetchMatchingUsernames" =>
    LET noFilter ==
          call.filters = Null
            \/ \A k \in {"gender", "country", "listen", "share"} : ~HasText(call.filters[k])
        n == Len(call.asked)
    IN /\ call.pc = "done" => ((call.returned = "null") <=> noFilter)
       /\ noFilter => n = 0
       /\ call.asked = [i \in 1..n |-> i]
       /\ n <= SafetyLimit
       /\ \A p \in 1..(n - 1) : PageOf(call.server, p).count = PerPage
       /\ (call.pc = "done" /\ call.returned = "set" /\ ~call.failed) =>
            /\ (n < SafetyLimit => PageOf(call.server, n).count < PerPage)
            /\ call.set = NamesOnPages(call.server, n)

\* witness: a run that fetched two full pages and stopped at the third, an
\* empty one, with a full page left on the server, no request having failed
C26_StoppedAtShortPage ==
  /\ call.fn = "fetchMatchingUsernames" /\ call.pc = "done" /\ ~call.failed
  /\ call.asked = <<1, 2, 3>> /\ Len(call.server.pages) = 4
  /\ call.set = {<<"a">>, <<"c">>}

-----------------------------------------------------------------------------
(* C27 *)

\* the cards in the results container before a step are its first cards after
CardsKept == SubSeq(resCards', 1, Len(resCards)) = resCards

\* C27: when the request of loadNextPage succeeds (and its cards can be
\* appended) the cards are appended after the existing ones, none removed or
\* reordered, and searchPage increases by exactly 1; when it fails searchPage
\* and the cards are unchanged and searchHasMore becomes false; in both cases
\* searchLoading is false afterwards
C27_LoadNextPageEffects ==
  [][\A i \in DOMAIN nextReqs, resp \in Responses :
       NextPageResponse(i, resp) =>
         /\ IF resp.ok /\ ~appendThrows(St, resp.n)
              THEN /\ Len(resCards') = Len(resCards) + (IF resp.n > 0 THEN 1 ELSE 0)
                   /\ CardsKept
                   /\ resp.n > 0 => resCards'[Len(resCards')].n = resp.n
                   /\ searchPage' = searchPage + 1
              ELSE /\ searchPage' = searchPage /\ resCards' = resCards
                   /\ ~searchHasMore'
         /\ ~searchLoading']_vars

-----------------------------------------------------------------------------
(* C28 *)

\* a request or a sleeping loadNextPage call of the search session the page
\* is in: made after the last page change and the last submission
OfSession(r) == r.view = nNav /\ r.sub = nSubmit

\* C28: within one search session searchLoading is true whenever a page
\* request of the session is in flight, no two next-page loads run at the
\* same time (a load started before a new submission included), and the
\* pages in the results container are in increasing order, none twice
C28_OneLoadAtATime ==
  variant = "replace" =>
    /\ ((\E i \in DOMAIN firstReqs : OfSession(firstReqs[i]))
          \/ (\E i \in DOMAIN nextReqs : OfSession(nextReqs[i]))
          \/ (\E i \in DOMAIN nextSleeps : OfSession(nextSleeps[i])))
         => searchLoading
    /\ Cardinality({i \in DOMAIN nextSleeps : nextSleeps[i].view = nNav})
         + Cardinality({i \in DOMAIN nextReqs : nextReqs[i].view = nNav}) <= 1
    /\ \A i, j \in DOMAIN resCards : i < j => resCards[i].page < resCards[j].page

-----------------------------------------------------------------------------
(* C29 *)

\* the load-more control is in the page
ControlInPage == dirDom /\ btnPresent

\* C29: while search mode is active every click on the load-more control in
\* the page is consumed by the capture handler (the host's list does not
\* grow) and starts a next-page load only with no load in progress and
\* searchHasMore true, the control is hidden iff searchHasMore is false and
\* disabled iff a load is in progress; with search mode exited the handler
\* is detached and the control visible and enabled
C29_LoadMoreOwnedInSearchMode ==
  /\ []((variant = "replace" /\ ControlInPage) =>
          IF searchActive
            THEN /\ btnListener
                 /\ (btnDisplay = "none") <=> ~searchHasMore
                 /\ btnDisabled <=> searchLoading
            ELSE ~btnListener /\ btnDisplay = "" /\ ~btnDisabled)
  /\ [][(ClickLoadMoreReplace /\ searchActive) =>
          /\ hostList' = hostList
          /\ nextSleeps' # nextSleeps => (~searchLoading /\ searchHasMore)]_vars

-----------------------------------------------------------------------------
(* C30 *)

\* the request req is the only operation pending, it was made by the last
\* submission of the page view, and no renderFirstPage or loadNextPage call
\* has completed since it was made (each sets searchLoading to false)
NonOverlapping(req) ==
  /\ firstReqs = <<req>> /\ nextReqs = <<>> /\ nextSleeps = <<>>
  /\ req.view = nNav /\ req.sub = nSubmit
  /\ searchLoading

\* C30: a completed, non-overlapping submission leaves searchPage at 1 and
\* the results container holding the cards of the users of the first page
\* response and nothing else; a submission with no filter set issues no
\* request and restores the original directory: host list displayed as
\* before search mode, results container emptied and hidden, empty-state
\* and loading indicators hidden
C30_SubmissionRendersFirstPage ==
  [][/\ \A resp \in Responses :
          (FirstPageResponse(1, resp) /\ NonOverlapping(firstReqs[1]) /\ resp.ok) =>
            /\ searchPage' = 1
            /\ Len(resCards') = (IF resp.n > 0 THEN 1 ELSE 0)
            /\ \A k \in DOMAIN resCards' :
                 /\ resCards'[k].n = resp.n
                 /\ resCards'[k].filters = firstReqs[1].filters
                 /\ resCards'[k].page = 1
     /\ \A sel \in FormChoices :
          (SubmitReplace(sel) /\ ~buildFiltersFromForm(sel).hasAnyFilter) =>
            /\ firstReqs' = firstReqs
            /\ secDisplay' = ""
            /\ resCards' = <<>> /\ resDisplay' = "none"
            /\ emptyEl' # "block" /\ loadingEl' # "block"
            /\ ~searchActive']_vars

-----------------------------------------------------------------------------
(* C31 *)

\* C31: for any sequence of directory page changes, several of them while
\* the options request is in flight included, the controls container holds
\* at most one injected filter form at any time
C31_AtMostOneForm == formCount <= 1

-----------------------------------------------------------------------------
(* URL-parameter variants: api.onPageChange and the default-sort          *)
(* normalization.  DiscourseURL.routeTo(next) makes the next page-change   *)
(* event, with next as its URL and as window.location.                     *)

\* redirects after which a behaviour is cut off
MaxRedirects == 3
\* submissions and Reset clicks in one behaviour
MaxUrlClicks == 2

\* the URLs of page-change events
NavUrls ==
  { <<"/", "u">>,
    <<"/", "u", "s", "e", "r", "s", "/">>,
    <<"/", "u", "/", "al">>,
    <<"/", "u", "?", "order", "=", "joined", "&", "asc", "=", "1">>,
    <<"/", "u", "?", "order", "=">>,
    <<"/", "u", "?", "asc", "=", "true", "&", "page", "=", "2">>,
    <<"/", "u", "?", "hb_gender", "=", "f", "&", "q", "=", "a", "%", "2", "6", "b",
      "#", "order", "=", "x">>,
    <<"/", "u", "?", "hb_listen", "=", "+", "j", "+", "&", "hb_share", "=", "+",
      "&", "hb_country", "=", "&", "hb_gender", "=", "f", "&", "hb_gender", "=", "m",
      "&", "page", "=", "2">>,
    <<"/", "u", "s", "e", "r", "s", "?", "hb_share", "=", "a", "+", "b", "&",
      "order", "=", "username">> }

\* ensureDefaultSortInUrl(url), part_001, were it not to look at order
ensureDefaultSortAlways(url) ==
  LET next == buildUrlWithParams001(readHbParams(url),
                                    [order |-> <<"last_seen">>, direction |-> "desc"], url)
  IN IF next # UrlPathname(url) \o (IF UrlSearch(url) = <<>> THEN <<>>
                                    ELSE <<"?">> \o UrlSearch(url))
       THEN [routed |-> TRUE, next |-> next]
       ELSE [routed |-> FALSE, next |-> url]

\* function ensureDefaultSortInUrl(url), part_001:
\* [routed |-> the value returned, next |-> the URL routed to]
ensureDefaultSortInUrl(url) ==
  IF OrEmpty(SpGet(ParseQuery(UrlSearch(url)), <<"order">>)) = <<>>
    THEN LET next == buildUrlWithParams001(
                       readHbParams(url),
                       [order |-> <<"last_seen">>, direction |-> "desc"], url)
         IN IF next # UrlPathname(url) \o (IF UrlSearch(url) = <<>> THEN <<>>
                                           ELSE <<"?">> \o UrlSearch(url))
              THEN [routed |-> TRUE, next |-> next]
              ELSE [routed |-> FALSE, next |-> url]
    ELSE [routed |-> FALSE, next |-> url]

\* function ensureDefaultSort(), part_000, on window.location
ensureDefaultSort(href) ==
  IF OrEmpty(SpGet(ParseQuery(UrlSearch(href)), <<"order">>)) # <<>>
    THEN [routed |-> FALSE, next |-> href]
    ELSE [routed |-> TRUE, next |-> buildUrlWithSort000(DEFAULT_ORDER, DEFAULT_DIR, href)]

\* the values the selects of a form show: [hb, order, dir]
FormShowing(hb, order, dir) == [hb |-> hb, order |-> order, dir |-> dir]
EmptyHb == [k \in {HB_KEYS[i] : i \in DOMAIN HB_KEYS} |-> <<>>]

\* function normalizeSortOrder(order), part_001
normalizeSortOrder(order) ==
  LET o == Trim(OrEmpty(order))
  IN IF o \in {<<"last_seen">>, <<"username">>, <<"joined">>} THEN o ELSE <<"last_seen">>

\* injectFilters of part_001 on an existing form: the values it assigns to
\* the selects from window.location (the selects hold the options assigned)
syncExisting001(href) ==
  LET hb == readHbParams(href)
      sortState == readSortParams(href)
  IN FormShowing([k \in DOMAIN hb |-> OrEmpty(hb[k])],
                 normalizeSortOrder(sortState.order), sortState.direction)

\* api.onPageChange((url) => ...) of part_000 and part_001: the
\* normalization, and setTimeout(injectFilters, 0) for a directory URL
OnPageChangeUrl ==
  /\ call.fn = "onPageChange" /\ call.stage = "event"
  /\ LET cleanUrl == BeforeHash(call.location)
         r == IF ~isDirectory(call.location) THEN [routed |-> FALSE, next |-> call.location]
              ELSE IF call.src = "part_001" THEN ensureDefaultSortInUrl(cleanUrl)
              ELSE ensureDefaultSort(call.location)
     IN call' = IF r.routed /\ call.redirects < MaxRedirects
                  THEN [call EXCEPT !.location = r.next, !.redirects = @ + 1,
                                    !.before = call.location, !.last = "redirect"]
                ELSE IF isDirectory(call.location)
                  THEN [call EXCEPT !.stage = "inject"]
                ELSE [call EXCEPT !.stage = "done"]
  /\ UNCHANGED <<variant, domVars, modVars, taskVars, countVars, load, hostPlan>>

\* injectFilters, run by its timer with the form in the page: the form is
\* set from the URL (syncFormFromUrl in part_000)
InjectExisting ==
  /\ call.fn = "onPageChange" /\ call.stage = "inject"
  /\ call' = [call EXCEPT !.stage = "done",
                          !.form = IF call.src = "part_000"
                                     THEN syncFormFromUrl(call.location)
                                     ELSE syncExisting001(call.location)]
  /\ UNCHANGED <<variant, domVars, modVars, taskVars, countVars, load, hostPlan>>

\* the forms a page shows before an event: filters and sort of the selects
UrlForms ==
  {FormShowing([EmptyHb EXCEPT !["hb_gender"] = g, !["hb_share"] = s], order, dir) :
     g \in {<<>>, <<"f">>}, s \in {<<>>, <<"a", " ", "b">>},
     order \in {<<"last_seen">>, <<"last_seen_at">>, <<"username">>},
     dir \in Directions}

\* the options of the sort select of each source
FormsOf(src) ==
  {form \in UrlForms :
     form.order \in (IF src = "part_000" THEN {<<"last_seen_at">>, <<"username">>}
                     ELSE {<<"last_seen">>, <<"username">>})}

\* the submit handler of part_000 and part_001, the form as the user has
\* set it
SubmitUrl ==
  /\ call.fn = "onPageChange" /\ call.stage = "done" /\ isDirectory(call.location)
  /\ call.clicks < MaxUrlClicks
  /\ \E form \in FormsOf(call.src) :
       LET hb == [k \in DOMAIN form.hb |-> Trim(form.hb[k])]
           next == IF call.src = "part_000"
                     THEN buildUrlWithParams000(hb, form.order, form.dir, call.location)
                     ELSE buildUrlWithParams001(
                            hb, [order |-> form.order, direction |-> form.dir],
                            call.location)
       IN call' = [call EXCEPT !.location = next, !.first = next,
                               !.before = call.location, !.form = form,
                               !.stage = "event", !.redirects = 0, !.clicks = @ + 1,
                               !.last = "submit"]
  /\ UNCHANGED <<variant, domVars, modVars, taskVars, countVars, load, hostPlan>>

\* a Reset click that clears the filters and keeps the sort the selects show
ResetUrlKeepSort ==
  /\ call.fn = "onPageChange" /\ call.stage = "done" /\ isDirectory(call.location)
  /\ call.clicks < MaxUrlClicks
  /\ LET next == IF call.src = "part_000"
                   THEN buildUrlWithParams000(EmptyHb, call.form.order, call.form.dir,
                                              call.location)
                   ELSE buildUrlWithParams001(
                          EmptyHb, [order |-> call.form.order, direction |-> call.form.dir],
                          call.location)
         order == call.form.order
         dir == call.form.dir
     IN call' = [call EXCEPT !.location = next, !.first = next, !.before = call.location,
                             !.stage = "event", !.redirects = 0, !.clicks = @ + 1,
                             !.form = FormShowing(EmptyHb, order, dir),
                             !.last = "reset"]
  /\ UNCHANGED <<variant, domVars, modVars, taskVars, countVars, load, hostPlan>>

\* the click handler of the Reset button of part_000 and part_001:
\* form.reset(), the sort selects set to the defaults, the URL routed to
ResetUrl ==
  /\ call.fn = "onPageChange" /\ call.stage = "done" /\ isDirectory(call.location)
  /\ call.clicks < MaxUrlClicks
  /\ LET next == IF call.src = "part_000"
                   THEN buildUrlWithParams000(EmptyHb, DEFAULT_ORDER, DEFAULT_DIR,
                                              call.location)
                   ELSE buildUrlWithParams001(
                          EmptyHb, [order |-> <<"last_seen">>, direction |-> "desc"],
                          call.location)
         order == IF call.src = "part_000" THEN DEFAULT_ORDER ELSE <<"last_seen">>
         dir == IF call.src = "part_000" THEN DEFAULT_DIR ELSE "desc"
     IN call' = [call EXCEPT !.location = next, !.first = next, !.before = call.location,
                             !.stage = "event", !.redirects = 0, !.clicks = @ + 1,
                             !.form = FormShowing(EmptyHb, order, dir),
                             !.last = "reset"]
  /\ UNCHANGED <<variant, domVars, modVars, taskVars, countVars, load, hostPlan>>

InitNormalize ==
  /\ variant = "hide"
  /\ InitFrom(InitState) /\ InitTasks
  /\ load = NoLoad /\ hostPlan = NoPlan
  /\ \E src \in {"part_000", "part_001"}, url \in NavUrls :
     \E form \in FormsOf(src) :
       /\ call = [fn |-> "onPageChange", src |-> src, first |-> url, location |-> url,
                  before |-> url, redirects |-> 0, stage |-> "event", form |-> form,
                  clicks |-> 0, last |-> "none"]

NextNormalize == OnPageChangeUrl \/ InjectExisting \/ SubmitUrl \/ ResetUrl

SpecNormalize == InitNormalize /\ [][NextNormalize]_vars

-----------------------------------------------------------------------------
(* C32 *)

QueryOf(url) == ParseQuery(UrlSearch(url))
\* the default order of a source
DefaultOrderOf(src) == IF src = "part_000" THEN DEFAULT_ORDER ELSE <<"last_seen">>
\* the URL carries order with the default value and no asc parameter
DefaultSorted(src, url) ==
  /\ SpGet(QueryOf(url), <<"order">>) = DefaultOrderOf(src)
  /\ ~SpHas(QueryOf(url), <<"asc">>)

\* C32 as stated: a directory page change whose URL has no order parameter
\* is redirected once, to a URL with the default order and descending
\* direction, the page change to that URL is not redirected again, and a
\* URL that carries an order parameter is never redirected
C32_NormalizedOnce ==
  call.fn = "onPageChange" =>
    /\ call.redirects <= 1
    /\ call.redirects = 1 =>
         /\ ~SpHas(QueryOf(call.first), <<"order">>)
         /\ DefaultSorted(call.src, call.location)
    /\ (call.stage = "done" /\ isDirectory(call.first)
          /\ ~SpHas(QueryOf(call.first), <<"order">>)) => call.redirects = 1

\* C32 amended: the same, with an order parameter of empty value counted as
\* no order: the URL is redirected iff it is a directory URL whose order is
\* absent or empty
C32_NormalizedOnceNonEmpty ==
  call.fn = "onPageChange" =>
    /\ call.redirects <= 1
    /\ call.redirects = 1 =>
         /\ isDirectory(call.first)
         /\ OrEmpty(SpGet(QueryOf(call.first), <<"order">>)) = <<>>
         /\ DefaultSorted(call.src, call.location)
         /\ UrlPathname(call.location) = UrlPathname(call.first)
    /\ (call.stage = "done" /\ isDirectory(call.first)
          /\ OrEmpty(SpGet(QueryOf(call.first), <<"order">>)) = <<>>) => call.redirects = 1

\* witness: a directory URL with asc and no order was redirected once and
\* the page change to the new URL settled without another redirect
C32_RedirectedOnceAndSettled ==
  /\ call.fn = "onPageChange" /\ call.stage = "done" /\ call.redirects = 1
  /\ SpHas(QueryOf(call.first), <<"asc">>)
  /\ SpGet(QueryOf(call.location), <<"page">>) = <<"2">>

-----------------------------------------------------------------------------
(* C33 *)

OwnedKeys == {<<HB_KEYS[i]>> : i \in DOMAIN HB_KEYS} \cup {<<"order">>, <<"asc">>}
NotOwned(pair) == pair[1] \notin OwnedKeys
IsHbPair(pair) == pair[1] \in {<<HB_KEYS[i]>> : i \in DOMAIN HB_KEYS}
\* the URL was written by a submission, a Reset click or the normalization
UrlWritten == call.fn = "onPageChange" /\ call.last # "none"
\* the path and the parameters the module does not own, in their order
FrameKept ==
  /\ UrlPathname(call.location) = UrlPathname(call.before)
  /\ SelectSeq(QueryOf(call.location), NotOwned) = SelectSeq(QueryOf(call.before), NotOwned)

\* C33 as stated: buildUrlWithParams leaves the path and every parameter
\* other than the four hb_* keys, order and asc unchanged, and the
\* normalization also leaves the hb_* parameters of the URL unchanged
C33_OnlyOwnedKeysTouched ==
  UrlWritten =>
    /\ FrameKept
    /\ call.last = "redirect" =>
         SelectSeq(QueryOf(call.location), IsHbPair)
           = SelectSeq(QueryOf(call.before), IsHbPair)

\* C33 amended: the same, the normalization leaving unchanged the value each
\* hb_* key reads as (its first value) up to blanks at its ends
C33_OnlyOwnedKeysTouchedTrimmed ==
  UrlWritten =>
    /\ FrameKept
    /\ call.last = "redirect" =>
         \A i \in DOMAIN HB_KEYS :
           Trim(OrEmpty(SpGet(QueryOf(call.location), <<HB_KEYS[i]>>)))
             = Trim(OrEmpty(SpGet(QueryOf(call.before), <<HB_KEYS[i]>>)))

\* witness: part_001 has normalized a URL with a padded hb_listen, a doubled
\* hb_gender and a page parameter
C33_NormalizedPaddedFilter ==
  /\ UrlWritten /\ call.last = "redirect" /\ call.src = "part_001"
  /\ SpGet(QueryOf(call.before), <<"hb_listen">>) = <<" ", "j", " ">>
  /\ SpGet(QueryOf(call.location), <<"hb_listen">>) = <<"j">>
  /\ SpGet(QueryOf(call.location), <<"hb_gender">>) = <<"f">>
  /\ SpGet(QueryOf(call.location), <<"page">>) = <<"2">>

-----------------------------------------------------------------------------
(* C34 *)

\* the URL written last was written by a Reset click (no redirect since)
AfterReset == call.fn = "onPageChange" /\ call.last = "reset"

\* C34: a Reset click routes to a URL on the same path with none of the four
\* hb_* parameters, the default order (last_seen_at in part_000, last_seen
\* in part_001) and no asc, and the form shows empty filters, the default
\* order and descending direction, then and after the page change it causes
C34_ResetToDefaults ==
  AfterReset =>
    LET sp == QueryOf(call.location)
    IN /\ \A i \in DOMAIN HB_KEYS : ~SpHas(sp, <<HB_KEYS[i]>>)
       /\ SpGet(sp, <<"order">>) = DefaultOrderOf(call.src)
       /\ ~SpHas(sp, <<"asc">>)
       /\ UrlPathname(call.location) = UrlPathname(call.before)
       /\ call.redirects = 0
       /\ \A k \in DOMAIN call.form.hb : call.form.hb[k] = <<>>
       /\ call.form.order = DefaultOrderOf(call.src)
       /\ call.form.dir = "desc"

\* witness: Reset was clicked on a URL with filters and an ascending sort,
\* with a form showing a filter, and its page change has been handled
C34_ResetFromFilteredState ==
  /\ AfterReset /\ call.stage = "done"
  /\ SpHas(QueryOf(call.before), <<"hb_share">>)
  /\ SpHas(QueryOf(call.before), <<"asc">>)
  /\ SpGet(QueryOf(call.before), <<"order">>) = <<"username">>

-----------------------------------------------------------------------------
(* The query of the requests to /user-search.json, built for the filters   *)
(* of a form and the pages 1, 2, ... of one search.                        *)

MaxParamPage == 3

\* String(n) of a natural number
RECURSIVE DecimalString(_)
DecimalString(n) ==
  LET d == <<"0", "1", "2", "3", "4", "5", "6", "7", "8", "9">>[(n % 10) + 1]
  IN IF n < 10 THEN <<d>> ELSE Append(DecimalString(n \div 10), d)

\* if (filters.gender) params.set("gender", filters.gender); ... for the four
\* fields, in the order of the source
RECURSIVE setFilterParams(_, _, _)
setFilterParams(params, filters, keys) ==
  IF keys = <<>> THEN params
  ELSE setFilterParams(IF filters[Head(keys)] # <<>>
                         THEN SpSet(params, <<Head(keys)>>, filters[Head(keys)])
                         ELSE params,
                       filters, Tail(keys))

\* the four filter parameters, set whatever the field holds
fetchUsersPageParamsAll(filters, page) ==
  LET p1 == SpSet(<<>>, <<"page">>, DecimalString(page))
      p2 == SpSet(p1, <<"per_page">>, DecimalString(SearchPerPage))
      p3 == SpSet(p2, <<"order">>, <<"last_seen">>)
      p4 == SpSet(p3, <<"asc">>, <<"false">>)
      p5 == SpSet(p4, <<"gender">>, filters.gender)
      p6 == SpSet(p5, <<"country">>, filters.country)
      p7 == SpSet(p6, <<"listen">>, filters.listen)
  IN SpSet(p7, <<"share">>, filters.share)

\* fetchUsersPage(filters, page): params (replace variant)
fetchUsersPageParams(filters, page) ==
  LET p1 == SpSet(<<>>, <<"page">>, DecimalString(page))
      p2 == SpSet(p1, <<"per_page">>, DecimalString(SearchPerPage))
      p3 == SpSet(p2, <<"order">>, <<"last_seen">>)
      p4 == SpSet(p3, <<"asc">>, <<"false">>)
  IN setFilterParams(p4, filters, <<"gender", "country", "listen", "share">>)

\* fetchMatchingUsernames(filters): params of the request for a page (hide
\* variant)
fetchMatchingParams(filters, page) ==
  LET p1 == SpSet(<<>>, <<"page">>, DecimalString(page))
      p2 == SpSet(p1, <<"per_page">>, DecimalString(PerPage))
      p3 == SpSet(p2, <<"order">>, <<"username">>)
      p4 == SpSet(p3, <<"asc">>, <<"true">>)
  IN setFilterParams(p4, filters, <<"gender", "country", "listen", "share">>)

\* renderFirstPage / loadNextPage: fetchUsersPage(searchFilters, page); the
\* submit handler searches only with a filter set
FetchUsersPageCall ==
  /\ call.fn = "search" /\ call.variant = "replace"
  /\ call.filters.hasAnyFilter /\ call.page <= MaxParamPage
  /\ call' = [call EXCEPT !.page = @ + 1,
                          !.sent = Append(@, fetchUsersPageParams(call.filters, call.page))]
  /\ UNCHANGED <<variant, domVars, modVars, taskVars, countVars, load, hostPlan>>

\* one pass of the loop of fetchMatchingUsernames up to its request
FetchMatchingCall ==
  /\ call.fn = "search" /\ call.variant = "hide"
  /\ call.filters.hasAnyFilter /\ call.page <= MaxParamPage
  /\ call' = [call EXCEPT !.page = @ + 1,
                          !.sent = Append(@, fetchMatchingParams(call.filters, call.page))]
  /\ UNCHANGED <<variant, domVars, modVars, taskVars, countVars, load, hostPlan>>

InitParams ==
  /\ variant = "hide"
  /\ InitFrom(InitState) /\ InitTasks
  /\ load = NoLoad /\ hostPlan = NoPlan
  /\ \E v \in {"replace", "hide"}, form \in FormInputs :
       call = [fn |-> "search", variant |-> v, form |-> form,
               filters |-> buildFiltersFromForm(form), page |-> 1, sent |-> <<>>]

NextParams == FetchUsersPageCall \/ FetchMatchingCall

SpecParams == InitParams /\ [][NextParams]_vars

-----------------------------------------------------------------------------
(* C35 *)

\* the values a query holds for a key, in order
ValuesOf(sp, k) ==
  LET IsKey(pair) == pair[1] = k
      hits == SelectSeq(sp, IsKey)
  IN [i \in DOMAIN hits |-> hits[i][2]]

\* C35: every search request carries page, per_page, order and asc, and a
\* filter parameter (gender, country, listen, share) iff the field of the
\* filters is non-empty, with its value; the replace variant requests
\* order=last_seen, asc=false, per_page=30, the hide variant order=username,
\* asc=true, per_page=100
C35_RequestParameters ==
  call.fn = "search" =>
    \A n \in DOMAIN call.sent :
      LET sp == call.sent[n]
          replace == call.variant = "replace"
      IN /\ ValuesOf(sp, <<"page">>) = <<DecimalString(n)>>
         /\ ValuesOf(sp, <<"per_page">>)
              = << IF replace THEN <<"3", "0">> ELSE <<"1", "0", "0">> >>
         /\ ValuesOf(sp, <<"order">>)
              = << IF replace THEN <<"last_seen">> ELSE <<"username">> >>
         /\ ValuesOf(sp, <<"asc">>) = << IF replace THEN <<"false">> ELSE <<"true">> >>
         /\ \A k \in {"gender", "country", "listen", "share"} :
              ValuesOf(sp, <<k>>)
                = (IF HasText(call.form[k]) THEN <<Trim(call.form[k])>> ELSE <<>>)
         /\ \A i \in DOMAIN sp :
              sp[i][1] \in {<<"page">>, <<"per_page">>, <<"order">>, <<"asc">>,
                            <<"gender">>, <<"country">>, <<"listen">>, <<"share">>}

\* witness: the replace variant has requested page 2 for a form with listen
\* set, gender blank and no country field
C35_SecondPageListenOnly ==
  /\ call.fn = "search" /\ call.variant = "replace" /\ Len(call.sent) = 2
  /\ call.form.listen = <<" ", "f", " ">> /\ call.form.gender = <<" ">>
  /\ call.form.country = Missing /\ call.form.share = <<>>
  /\ SpGet(call.sent[2], <<"listen">>) = <<"f">>
  /\ ~SpHas(call.sent[2], <<"gender">>)

-----------------------------------------------------------------------------
(* C36 *)

\* ensureDirectoryFullyLoadedOnce starts ensureAllUsersLoaded in this step
LoadStarted == directoryLoadPromise.state # "pending" /\ directoryLoadPromise'.state = "pending"
\* the load a run belongs to is the one directoryLoadPromise stands for: no
\* directory page change has reset the promise since the run was started
OfCurrentView(id) == directoryLoadPromise = [state |-> "pending", id |-> id]

\* C36: the exhaustive load is started at most once in a page view (never
\* while a run of the view is in progress or has finished),
\* directoryFullyLoaded becomes true only when a run finishes, and a run
\* started before a directory page change that finishes after it leaves
\* directoryFullyLoaded of the new view as it is
C36_SingleFlightPerView ==
  [][ /\ LoadStarted =>
           /\ (nNav + 1) \notin loaders
           /\ ~directoryFullyLoaded
           /\ directoryLoadPromise'.id = nNav + 1
      /\ (~directoryFullyLoaded /\ directoryFullyLoaded') =>
           \E id \in loaders : id \notin loaders'
      /\ \A id \in loaders :
           (LoaderFinish(id) /\ ~OfCurrentView(id)) =>
             directoryFullyLoaded' = directoryFullyLoaded
    ]_vars

-----------------------------------------------------------------------------
(* C37 *)

\* no submission is in progress: no renderFirstPage awaits its response
\* (replace variant), no submit handler is at an await (hide variant)
NoSubmissionInProgress == firstReqs = <<>> /\ hideSubmits = <<>>
NoPageLoadInProgress == nextSleeps = <<>> /\ nextReqs = <<>>

-----------------------------------------------------------------------------
(* Hide variant: the debounce of scheduleReapply on its own.  The timers   *)
(* set and not yet fired or cleared are kept apart from the variable        *)
(* scheduledReapply that names one of them.                                 *)

MaxDebounceEvents == 5

NoTimer == 0
Unchanged38 == UNCHANGED <<variant, domVars, modVars, taskVars, countVars, load, hostPlan>>

\* function stopObservingDirectory() on the state of the debounce
stopObserving38(c) ==
  [c EXCEPT !.directoryObserver = FALSE,
            !.timers = {t \in @ : t.id # c.scheduledReapply},
            !.scheduledReapply = NoTimer,
            !.first = 0]

\* function scheduleReapply(): the part outside the timer callback
scheduleReapply38(c) ==
  IF c.scheduledReapply # NoTimer THEN c
  ELSE [c EXCEPT !.scheduledReapply = c.nextId,
                 !.timers = @ \cup {[id |-> c.nextId, mut |-> c.nMut + 1]},
                 !.nextId = @ + 1]

\* the host changes the list under the connected observer: the callback of
\* the MutationObserver
MutationObserved ==
  /\ call.fn = "debounce" /\ call.directoryObserver /\ call.events < MaxDebounceEvents
  /\ LET c == IF call.isReordering THEN call ELSE scheduleReapply38(call)
     IN call' = [c EXCEPT !.nMut = @ + 1, !.events = @ + 1,
                          !.first = IF ~call.isReordering /\ @ = 0 THEN call.nMut + 1 ELSE @]
  /\ Unchanged38

\* the callback of a timer set by scheduleReapply runs
ReapplyFires ==
  /\ call.fn = "debounce"
  /\ \E t \in call.timers :
       LET c1 == [call EXCEPT !.timers = @ \ {t}, !.scheduledReapply = NoTimer,
                              !.first = 0]
       IN call' = IF c1.isReordering THEN c1
                  ELSE IF ~c1.formAttached THEN stopObserving38(c1)
                  ELSE [c1 EXCEPT !.reapplied = @ + 1, !.isReordering = TRUE,
                                  !.reorderTimers = @ + 1]
  /\ Unchanged38

\* setTimeout(() => { isReordering = false; }, 0)
ReorderFires ==
  /\ call.fn = "debounce" /\ call.reorderTimers > 0
  /\ call' = [call EXCEPT !.reorderTimers = @ - 1, !.isReordering = FALSE]
  /\ Unchanged38

\* sortCardsByLastSeen() run by the injection timer or by a submission
SortRuns ==
  /\ call.fn = "debounce" /\ call.formAttached /\ call.events < MaxDebounceEvents
  /\ call' = [call EXCEPT !.isReordering = TRUE, !.reorderTimers = @ + 1,
                          !.events = @ + 1]
  /\ Unchanged38

\* api.onPageChange: stopObservingDirectory()
PageChange38 ==
  /\ call.fn = "debounce" /\ call.events < MaxDebounceEvents
  /\ call' = [stopObserving38(call) EXCEPT !.events = @ + 1]
  /\ Unchanged38

\* injectFilters with the form in the page: startObservingDirectory()
Observe38 ==
  /\ call.fn = "debounce" /\ call.events < MaxDebounceEvents
  /\ call' = [stopObserving38(call) EXCEPT !.directoryObserver = TRUE,
                                           !.formAttached = TRUE, !.events = @ + 1]
  /\ Unchanged38

\* the host removes the directory DOM, the form with it
FormDetached ==
  /\ call.fn = "debounce" /\ call.formAttached /\ call.events < MaxDebounceEvents
  /\ call' = [call EXCEPT !.formAttached = FALSE, !.events = @ + 1]
  /\ Unchanged38

InitDebounce ==
  /\ variant = "hide"
  /\ InitFrom(InitState) /\ InitTasks
  /\ load = NoLoad /\ hostPlan = NoPlan
  /\ call = [fn |-> "debounce", directoryObserver |-> TRUE, formAttached |-> TRUE,
             scheduledReapply |-> NoTimer, timers |-> {}, nextId |-> 1,
             isReordering |-> FALSE, reorderTimers |-> 0, nMut |-> 0, first |-> 0,
             reapplied |-> 0, events |-> 0]

NextDebounce ==
  \/ MutationObserved \/ ReapplyFires \/ ReorderFires \/ SortRuns
  \/ PageChange38 \/ Observe38 \/ FormDetached

SpecDebounce == InitDebounce /\ [][NextDebounce]_vars

-----------------------------------------------------------------------------
(* C38 *)

\* C38: at most one reapply timer is pending, set by the first mutation
\* observed since the last firing; with the observer disconnected none is
\* pending; and a timer that fires with the form in the page re-applies
\* exactly once, other steps not at all
C38_Debounce ==
  /\ [](call.fn = "debounce" =>
          /\ Cardinality(call.timers) <= 1
          /\ \A t \in call.timers : t.mut = call.first
          /\ ~call.directoryObserver => call.timers = {})
  /\ [][call.fn = "debounce" =>
          call'.reapplied =
            (IF ReapplyFires /\ call.formAttached
               THEN call.reapplied + 1 ELSE call.reapplied)]_vars

-----------------------------------------------------------------------------
(* C39 *)

\* the places of a list that hold the node of a card: the card whatever its
\* display
PlacesOf(list, card) ==
  {j \in DOMAIN list : [list[j] EXCEPT !.display = ""] = [card EXCEPT !.display = ""]}

\* C39: sortCardsByLastSeen only reorders: every card node of the list
\* before is in the list after exactly once and no other node is, each with
\* the display it had, and a second call on the result leaves the order as
\* the first call made it
C39_SortOnlyReorders ==
  (call.fn = "sortCardsByLastSeen" /\ call.done) =>
    /\ Len(hostList) = Len(call.args)
    /\ \A i \in DOMAIN call.args :
         /\ Cardinality(PlacesOf(hostList, call.args[i])) = 1
         /\ \A j \in PlacesOf(hostList, call.args[i]) :
              hostList[j].display = call.args[i].display
    /\ \A j \in DOMAIN hostList : PlacesOf(call.args, hostList[j]) # {}
    /\ call.again => hostList = call.once

\* witness: a list of four cards, two of them hidden and two seen at the
\* same time, was put into another order by the first call and sorted again
C39_SortedTwice ==
  /\ call.fn = "sortCardsByLastSeen" /\ call.again
  /\ Len(call.args) = 4 /\ hostList # call.args
  /\ Cardinality({i \in DOMAIN hostList : hostList[i].display = "none"}) = 2
  /\ Stamps(call.args) = <<0, 2, 1, 2>>

-----------------------------------------------------------------------------
(* C40 *)

\* the URL without its #fragment and its query string is /u or /users, with
\* or without a slash at its end
DirectoryUrl(url) ==
  UrlPathname(url) \in { <<"/", "u">>, <<"/", "u", "/">>,
                        <<"/", "u", "s", "e", "r", "s">>,
                        <<"/", "u", "s", "e", "r", "s", "/">> }

PageChanged(url) == OnPageChangeReplace(url) \/ OnPageChangeHide(url)

\* C40: a page change enters the directory (sets the injection timer) iff
\* its URL without #fragment is /u or /users with an optional slash and an
\* optional query string; for any other URL it leaves (no timer, activeForm
\* null); an injection timer is set by nothing else, and a form is inserted
\* only into a directory page
C40_DirectoryIffUrl ==
  [][ /\ \A url \in Urls :
           PageChanged(url) =>
             IF DirectoryUrl(url)
               THEN injectTimers' = injectTimers + 1
               ELSE /\ injectTimers' = injectTimers
                    /\ activeForm' = NullForm
      /\ injectTimers' > injectTimers =>
           \E url \in Urls : DirectoryUrl(url) /\ PageChanged(url)
      /\ formCount' > formCount => dirDom'
    ]_vars

\* witness: a page change entered the directory, the form was injected, and
\* a second page change has left it
C40_EnteredAndLeft ==
  /\ nNav = 2 /\ formCount > 0 /\ activeForm = NullForm /\ injectTimers = 0

====
